---- MODULE Spec2Model ----
(***************************************************************************)
(* CottonOS: CottonFS (kernel/src/fs/cottonfs.rs), the VFS convenience     *)
(* wrappers (kernel/src/fs/mod.rs) and the scheduler                       *)
(* (kernel/src/proc/scheduler.rs, kernel/src/proc/mod.rs) as state         *)
(* machines.                                                               *)
(*                                                                         *)
(* Representation notes                                                    *)
(*  - Byte strings (Vec<u8>, block buffers) are run-length encoded: a      *)
(*    sequence of runs <<byte, count>>, kept in normal form (no empty run, *)
(*    no two adjacent runs of the same byte), so that 4096-byte blocks and *)
(*    48 KiB files keep their real sizes.                                  *)
(*  - Option<T> is <<>> (None) or <<x>> (Some(x)).                         *)
(*  - A bitmap is the set of indices of its 1 bits plus its byte length.   *)
(*  - The device is a map from 4 KiB block number to block content; a      *)
(*    block that was never written reads as zeros.                         *)
(***************************************************************************)
EXTENDS Integers, Sequences, FiniteSets, TLC

(***************************************************************************)
(* Program constants (cottonfs.rs)                                         *)
(***************************************************************************)
BLOCK_SIZE == 4096
INODE_BITMAP_BLOCKS == 31
DATA_BITMAP_BLOCKS == 32
INODE_TABLE_BLOCKS == 64
DATA_BLOCKS_START == 128
DISK_INODE_SIZE == 128
MAX_INODES == (INODE_TABLE_BLOCKS * BLOCK_SIZE) \div DISK_INODE_SIZE
DIRECT_BLOCKS == 12
ROOT_INODE == 1
\* Layout of #[repr(C)] DiskInode: the fields before `direct` occupy 64
\* bytes (2+1+1+4+4, 4 bytes of alignment padding, 5*8, 4+4); a block
\* pointer is a u64.  size_of::<DiskInode>() is therefore 64 + 12*8 + 8.
DirectOffset == 64
PointerSize == 8
DiskInodeStructSize == DirectOffset + DIRECT_BLOCKS * PointerSize + PointerSize
\* size_of::<DiskDirEntry>() for #[repr(C)] { u64, u8, u8, [u8;2], [u8;60] }
DirEntrySize == 72
\* FileMode::DEFAULT_FILE = 0o644, FileMode::DEFAULT_DIR = 0o755
DEFAULT_FILE == 420
DEFAULT_DIR == 493

(***************************************************************************)
(* Bounds of the model                                                     *)
(***************************************************************************)
\* Size of the block device in 4 KiB blocks (its sector count is 8 times
\* this).  I/O on a block at or beyond it fails with the drive's ERR status.
DeviceBlocks == 144
\* Number of re-mounts explored.
MaxRemounts == 2
\* Number of filesystem calls in a run.
MaxCalls == 4
\* Names used in the root directory: of a regular file, of a directory.
FileNames == {"a"}
DirNames == {"b"}
Names == FileNames \cup DirNames
\* Values an uninitialised padding word can take (0 or "something else").
UninitWords == {0, 1}
\* u64 values above 2^32 are represented by multiples of this weight
\* (every such value is beyond the device and beyond both bitmaps).
HiWord == 1048576 * 1024

Min(a, b) == IF a <= b THEN a ELSE b
Max(a, b) == IF a >= b THEN a ELSE b

(***************************************************************************)
(* Byte strings                                                            *)
(***************************************************************************)
RECURSIVE BLen(_)
BLen(s) == IF s = <<>> THEN 0 ELSE Head(s)[2] + BLen(Tail(s))

RECURSIVE BNorm(_)
BNorm(s) ==
    IF s = <<>> THEN <<>>
    ELSE IF Head(s)[2] = 0 THEN BNorm(Tail(s))
    ELSE LET r == BNorm(Tail(s)) IN
         IF r # <<>> /\ Head(r)[1] = Head(s)[1]
         THEN << <<Head(s)[1], Head(s)[2] + Head(r)[2]>> >> \o Tail(r)
         ELSE <<Head(s)>> \o r

RECURSIVE BTake(_, _)
BTake(s, n) ==
    IF n <= 0 \/ s = <<>> THEN <<>>
    ELSE IF Head(s)[2] <= n THEN <<Head(s)>> \o BTake(Tail(s), n - Head(s)[2])
    ELSE << <<Head(s)[1], n>> >>

RECURSIVE BDrop(_, _)
BDrop(s, n) ==
    IF n <= 0 \/ s = <<>> THEN s
    ELSE IF Head(s)[2] <= n THEN BDrop(Tail(s), n - Head(s)[2])
    ELSE << <<Head(s)[1], Head(s)[2] - n>> >> \o Tail(s)

BCat(a, b) == BNorm(a \o b)
BZeros(n) == IF n <= 0 THEN <<>> ELSE << <<0, n>> >>
BFill(b, n) == IF n <= 0 THEN <<>> ELSE << <<b, n>> >>
BSlice(s, from, to) == BTake(BDrop(s, from), to - from)

\* Vec::resize(n, 0)
BResize(s, n) == IF n <= BLen(s) THEN BTake(s, n) ELSE BCat(s, BZeros(n - BLen(s)))

\* data[offset..offset+buf.len()].copy_from_slice(buf)
BCopyInto(data, offset, buf) ==
    BCat(BCat(BTake(data, offset), buf), BDrop(data, offset + BLen(buf)))

\* let mut buf = vec![0u8; BLOCK_SIZE]; buf[..end-offset].copy_from_slice(&data[offset..end])
BlockBuf(data, offset, end) ==
    BCat(BSlice(data, offset, end), BZeros(BLOCK_SIZE - (end - offset)))

(***************************************************************************)
(* Results of fallible functions                                           *)
(***************************************************************************)
Ok(st, v) == [ok |-> TRUE, st |-> st, v |-> v]
Err(st) == [ok |-> FALSE, st |-> st, v |-> <<>>]

(***************************************************************************)
(* Bitmaps                                                                 *)
(***************************************************************************)
InodeBitmapBytes == INODE_BITMAP_BLOCKS * BLOCK_SIZE
DataBitmapBytes == DATA_BITMAP_BLOCKS * BLOCK_SIZE

get_bit(bitmap, len, index) == (index \div 8) < len /\ index \in bitmap
set_bit(bitmap, len, index) == IF (index \div 8) < len THEN bitmap \cup {index} ELSE bitmap
clear_bit(bitmap, len, index) == IF (index \div 8) < len THEN bitmap \ {index} ELSE bitmap

\* the scan `for i in lo..hi { if !get_bit(bitmap, i) {...} }`: the first
\* clear index, or hi when there is none.
FirstClear(bitmap, len, i, hi) ==
    IF \A k \in i..(hi - 1) : get_bit(bitmap, len, k) THEN hi
    ELSE CHOOSE k \in i..(hi - 1) :
             /\ ~get_bit(bitmap, len, k)
             /\ \A j \in i..(k - 1) : get_bit(bitmap, len, j)

(***************************************************************************)
(* Superblock                                                              *)
(***************************************************************************)
\* BlockDevice::total_blocks() of the ATA device is its sector count.
DeviceTotalBlocks == DeviceBlocks * 8

SaturatingSub(a, b) == IF a >= b THEN a - b ELSE 0

Superblock_new(total_blocks) ==
    [ total_blocks |-> total_blocks,
      total_inodes |-> MAX_INODES,
      free_blocks  |-> SaturatingSub(total_blocks, DATA_BLOCKS_START),
      free_inodes  |-> MAX_INODES - 1 ]

(***************************************************************************)
(* Disk inodes                                                             *)
(***************************************************************************)
ZeroPointers(n) == [i \in 1..n |-> 0]

\* uid, gid, atime, mtime and ctime are 0 in every inode the code builds
\* and are never assigned; they are left out of the record.  _pad is the
\* alignment padding between gid and size, which a struct literal leaves
\* uninitialised.
new_file(u) ==
    [ mode |-> DEFAULT_FILE, file_type |-> 1, _pad |-> u, size |-> 0, blocks |-> 0,
      nlink |-> 1, direct |-> ZeroPointers(DIRECT_BLOCKS), indirect |-> 0 ]

new_dir(u) ==
    [ mode |-> DEFAULT_DIR, file_type |-> 2, _pad |-> u, size |-> 0, blocks |-> 0,
      nlink |-> 2, direct |-> ZeroPointers(DIRECT_BLOCKS), indirect |-> 0 ]

get_file_type(t) == IF t = 2 THEN "Directory" ELSE IF t = 3 THEN "Symlink" ELSE "Regular"

\* Number of direct pointers that lie inside the first DISK_INODE_SIZE bytes
\* of the struct.
PersistedPointers == (DISK_INODE_SIZE - DirectOffset) \div PointerSize

\* The first DISK_INODE_SIZE bytes of a DiskInode: what one inode-table
\* slot holds.
InodeImage(di) ==
    [ mode |-> di.mode, file_type |-> di.file_type, _pad |-> di._pad, size |-> di.size,
      blocks |-> di.blocks, nlink |-> di.nlink,
      direct |-> SubSeq(di.direct, 1, Min(PersistedPointers, DIRECT_BLOCKS)) ]

ZeroImage ==
    [ mode |-> 0, file_type |-> 0, _pad |-> 0, size |-> 0, blocks |-> 0, nlink |-> 0,
      direct |-> ZeroPointers(Min(PersistedPointers, DIRECT_BLOCKS)) ]

SlotAt(st, ino) == IF ino \in DOMAIN st.dino THEN st.dino[ino] ELSE ZeroImage

\* The bytes that follow a slot, read as little-endian u64 words: the first
\* 40 bytes of the next slot are mode|file_type|_pad1|uid, gid|padding,
\* size, blocks, atime.
SlotAsWords(img) ==
    << img.mode + img.file_type * 65536, img._pad * HiWord, img.size, img.blocks, 0 >>

inodes_per_block == BLOCK_SIZE \div DISK_INODE_SIZE

\* Words found behind slot `ino` in the 4096-byte block buffer.  Behind the
\* last slot of a block the read leaves the buffer: the words are whatever
\* follows the allocation (g).
WordsAfterSlot(st, ino, g) ==
    IF ino % inodes_per_block = inodes_per_block - 1
    THEN << g * HiWord, g * HiWord, g * HiWord, g * HiWord, g * HiWord >>
    ELSE SlotAsWords(SlotAt(st, ino + 1))

\* read_disk_inode: ptr::read of size_of::<DiskInode>() bytes at the slot.
read_disk_inode(st, ino, g) ==
    LET img == SlotAt(st, ino)
        extra == WordsAfterSlot(st, ino, g)
        missing == DIRECT_BLOCKS - Len(img.direct)
    IN  [ mode |-> img.mode, file_type |-> img.file_type, _pad |-> img._pad,
          size |-> img.size, blocks |-> img.blocks, nlink |-> img.nlink,
          direct |-> img.direct \o SubSeq(extra, 1, missing),
          indirect |-> extra[missing + 1] ]

\* write_disk_inode: copies DISK_INODE_SIZE bytes of the struct into the slot.
write_disk_inode(st, ino, di) ==
    [st EXCEPT !.dino = (ino :> InodeImage(di)) @@ st.dino]

(***************************************************************************)
(* Block I/O                                                               *)
(***************************************************************************)
DeviceHas(block) == block < DeviceBlocks

write_block(st, block, content) ==
    IF DeviceHas(block)
    THEN Ok([st EXCEPT !.dblk = (block :> content) @@ st.dblk], <<>>)
    ELSE Err(st)

\* A data block holds file bytes or serialized directory entries.
FileBlock(bytes) == [kind |-> "bytes", bytes |-> bytes, entries |-> <<>>]
DirBlock(entries) == [kind |-> "dir", bytes |-> <<>>, entries |-> entries]

\* read_block into a byte buffer
ReadBytes(st, block) ==
    IF block \notin DOMAIN st.dblk THEN BZeros(BLOCK_SIZE)
    ELSE IF st.dblk[block].kind = "bytes" THEN st.dblk[block].bytes
    ELSE BFill(255, BLOCK_SIZE)

GarbageEntry == [inode |-> HiWord, name |-> "?", file_type |-> 0]

\* read_block followed by the parse of the non-empty 72-byte entries
ReadEntries(st, block) ==
    IF block \notin DOMAIN st.dblk THEN <<>>
    ELSE IF st.dblk[block].kind = "dir" THEN st.dblk[block].entries
    ELSE IF st.dblk[block].bytes = BZeros(BLOCK_SIZE) THEN <<>>
    ELSE <<GarbageEntry>>

sync_superblock(st) == [st EXCEPT !.dsb = <<st.sb>>]
sync_inode_bitmap(st) == [st EXCEPT !.dibm = st.ibm]
sync_data_bitmap(st) == [st EXCEPT !.ddbm = st.dbm]

(***************************************************************************)
(* CottonFS: allocation                                                    *)
(***************************************************************************)
alloc_inode(st) ==
    IF st.sb.free_inodes = 0 THEN Err(st)
    ELSE LET i == FirstClear(st.ibm, InodeBitmapBytes, 1, MAX_INODES) IN
         IF i >= MAX_INODES THEN Err(st)
         ELSE LET s1 == [st EXCEPT !.ibm = set_bit(st.ibm, InodeBitmapBytes, i),
                                   !.sb.free_inodes = st.sb.free_inodes - 1]
              IN Ok(sync_superblock(sync_inode_bitmap(s1)), i)

free_inode(st, ino) ==
    IF ino = ROOT_INODE THEN Err(st)
    ELSE LET s1 == [st EXCEPT !.ibm = clear_bit(st.ibm, InodeBitmapBytes, ino),
                              !.sb.free_inodes = st.sb.free_inodes + 1,
                              !.cache = [n \in (DOMAIN st.cache) \ {ino} |-> st.cache[n]]]
         IN Ok(sync_superblock(sync_inode_bitmap(s1)), <<>>)

alloc_block(st) ==
    IF st.sb.free_blocks = 0 THEN Err(st)
    ELSE LET max_blocks == SaturatingSub(st.sb.total_blocks, DATA_BLOCKS_START)
             i == FirstClear(st.dbm, DataBitmapBytes, 0, max_blocks)
         IN IF i >= max_blocks THEN Err(st)
            ELSE LET s1 == [st EXCEPT !.dbm = set_bit(st.dbm, DataBitmapBytes, i),
                                      !.sb.free_blocks = st.sb.free_blocks - 1]
                 IN Ok(sync_superblock(sync_data_bitmap(s1)), DATA_BLOCKS_START + i)

free_block(st, block) ==
    IF block < DATA_BLOCKS_START THEN Err(st)
    ELSE LET index == block - DATA_BLOCKS_START IN
         IF ~get_bit(st.dbm, DataBitmapBytes, index) THEN Ok(st, <<>>)
         ELSE LET s1 == [st EXCEPT !.dbm = clear_bit(st.dbm, DataBitmapBytes, index),
                                   !.sb.free_blocks = st.sb.free_blocks + 1]
              IN Ok(sync_superblock(sync_data_bitmap(s1)), <<>>)

(***************************************************************************)
(* CottonFS: the inode cache                                               *)
(***************************************************************************)
\* The single element of a singleton set.  { e : x \in {v} } binds x to the
\* value of v in e, the way a `let` statement does.
Only(S) == CHOOSE x \in S : TRUE

\* `r?` followed by Ok(v)
OkWith(r, v) == IF r.ok THEN Ok(r.st, v) ELSE Err(r.st)

CottonInode(di) ==
    [ file_type |-> get_file_type(di.file_type), disk_inode |-> di,
      dir_entries |-> <<>>, file_data |-> <<>>, dirty |-> 0 ]

InsertInode(st, ino, di) ==
    IF di.file_type = 0 THEN Err(st)
    ELSE Ok([st EXCEPT !.cache = (ino :> CottonInode(di)) @@ st.cache], ino)

\* Ok(ino) when the inode is (now) in the cache.
load_inode_internal(st, ino, g) ==
    IF ino \in DOMAIN st.cache THEN Ok(st, ino)
    ELSE InsertInode(st, ino, read_disk_inode(st, ino, g))

(***************************************************************************)
(* CottonInode: directory content                                          *)
(***************************************************************************)
\* the loop of load_dir_entries over the direct pointers: Ok(entries), or
\* Err when a block cannot be read
RECURSIVE ReadDirBlocks(_, _, _, _)
ReadDirBlocks(st, direct, i, acc) ==
    IF i > DIRECT_BLOCKS THEN Ok(st, acc)
    ELSE IF direct[i] = 0 THEN Ok(st, acc)
    ELSE IF ~DeviceHas(direct[i]) THEN Err(st)
    ELSE ReadDirBlocks(st, direct, i + 1, acc \o ReadEntries(st, direct[i]))

StoreDirEntries(st, ino, r) ==
    IF ~r.ok THEN Err(st)
    ELSE Ok([st EXCEPT !.cache[ino].dir_entries = <<r.v>>], <<>>)

load_dir_entries(st, ino) ==
    IF st.cache[ino].file_type # "Directory" THEN Err(st)
    ELSE StoreDirEntries(st, ino, ReadDirBlocks(st, st.cache[ino].disk_inode.direct, 1, <<>>))

\* `if entries.is_none() { load_dir_entries() }`: the result of the load,
\* Ok when the entries were cached already
EnsureDirEntries(st, ino) ==
    IF st.cache[ino].dir_entries = <<>> THEN load_dir_entries(st, ino) ELSE Ok(st, <<>>)

\* Entries whose serialization starts in block i (0-based) of the
\* directory data; a directory of the explored runs fits one block.
EntriesOfBlock(entries, i) ==
    SubSeq(entries, i * (BLOCK_SIZE \div DirEntrySize) + 1,
           Min(Len(entries), (i + 1) * (BLOCK_SIZE \div DirEntrySize)))

\* `if direct[i] == 0 { direct[i] = alloc_block()? }`: Ok(direct[i])
EnsureBlock(st, ino, i) ==
    IF st.cache[ino].disk_inode.direct[i + 1] # 0
    THEN Ok(st, st.cache[ino].disk_inode.direct[i + 1])
    ELSE Only({ IF ~a.ok THEN Err(a.st)
                ELSE Ok([a.st EXCEPT !.cache[ino].disk_inode.direct[i + 1] = a.v], a.v)
                : a \in {alloc_block(st)} })

\* the allocate-and-write loop of save_dir_entries, i in 0..n-1
RECURSIVE WriteDirBlocks(_, _, _, _, _)
WriteDirBlocks(st, ino, entries, i, n) ==
    IF i >= n THEN Ok(st, <<>>)
    ELSE Only({ IF ~a.ok THEN Err(a.st)
                ELSE Only({ IF ~w.ok THEN Err(w.st)
                            ELSE WriteDirBlocks(w.st, ino, entries, i + 1, n)
                            : w \in {write_block(a.st, a.v, DirBlock(EntriesOfBlock(entries, i)))} })
                : a \in {EnsureBlock(st, ino, i)} })

\* the tail shared by save_dir_entries and save_file_data: size and blocks
\* are set, the inode is written to its slot, dirty is cleared
StoreInode(st, ino, size, blocks) ==
    Only({ [write_disk_inode(s, ino, s.cache[ino].disk_inode) EXCEPT !.cache[ino].dirty = 0]
           : s \in {[st EXCEPT !.cache[ino].disk_inode.size = size,
                               !.cache[ino].disk_inode.blocks = blocks]} })

SaveDirBlocks(st, ino, entries, blocks_needed) ==
    Only({ IF ~w.ok THEN Err(w.st)
           ELSE Ok(StoreInode(w.st, ino, Len(entries) * DirEntrySize, blocks_needed), <<>>)
           : w \in {WriteDirBlocks(st, ino, entries, 0, Min(blocks_needed, DIRECT_BLOCKS))} })

save_dir_entries(st, ino) ==
    IF st.cache[ino].file_type # "Directory" THEN Err(st)
    ELSE IF st.cache[ino].dir_entries = <<>> THEN Err(st)
    ELSE SaveDirBlocks(st, ino, st.cache[ino].dir_entries[1],
                       (Len(st.cache[ino].dir_entries[1]) * DirEntrySize + BLOCK_SIZE - 1)
                           \div BLOCK_SIZE)

(***************************************************************************)
(* CottonInode: file content                                               *)
(***************************************************************************)
\* the loop of load_file_data: Ok(data) or Err when a block cannot be read
RECURSIVE ReadFileBlocks(_, _, _, _, _)
ReadFileBlocks(st, direct, i, remaining, acc) ==
    IF i > DIRECT_BLOCKS THEN Ok(st, acc)
    ELSE IF remaining = 0 \/ direct[i] = 0 THEN Ok(st, acc)
    ELSE IF ~DeviceHas(direct[i]) THEN Err(st)
    ELSE ReadFileBlocks(st, direct, i + 1, remaining - Min(remaining, BLOCK_SIZE),
                        BCat(acc, BTake(ReadBytes(st, direct[i]), Min(remaining, BLOCK_SIZE))))

StoreFileData(st, ino, r) ==
    IF ~r.ok THEN Err(st)
    ELSE Ok([st EXCEPT !.cache[ino].file_data = <<r.v>>], <<>>)

load_file_data(st, ino) ==
    IF st.cache[ino].file_type # "Regular" THEN Err(st)
    ELSE StoreFileData(st, ino, ReadFileBlocks(st, st.cache[ino].disk_inode.direct, 1,
                                               st.cache[ino].disk_inode.size, <<>>))

\* `if data.is_none() { load_file_data() }`: the result of the load, Ok
\* when the data was cached already
EnsureFileData(st, ino) ==
    IF st.cache[ino].file_data = <<>> THEN load_file_data(st, ino) ELSE Ok(st, <<>>)

\* the allocate-and-write loop of save_file_data, i in 0..n-1
RECURSIVE WriteFileBlocks(_, _, _, _, _)
WriteFileBlocks(st, ino, data, i, n) ==
    IF i >= n THEN Ok(st, <<>>)
    ELSE Only({ IF ~a.ok THEN Err(a.st)
                ELSE Only({ IF ~w.ok THEN Err(w.st)
                            ELSE WriteFileBlocks(w.st, ino, data, i + 1, n)
                            : w \in {write_block(a.st, a.v,
                                        FileBlock(BlockBuf(data, i * BLOCK_SIZE,
                                            Min(i * BLOCK_SIZE + BLOCK_SIZE, BLen(data)))))} })
                : a \in {EnsureBlock(st, ino, i)} })

\* the loop that frees the blocks past the new end, i in from..DIRECT_BLOCKS-1
RECURSIVE FreeExtraBlocks(_, _, _)
FreeExtraBlocks(st, ino, i) ==
    IF i >= DIRECT_BLOCKS THEN st
    ELSE IF st.cache[ino].disk_inode.direct[i + 1] = 0 THEN FreeExtraBlocks(st, ino, i + 1)
    ELSE FreeExtraBlocks(
             [free_block(st, st.cache[ino].disk_inode.direct[i + 1]).st
                 EXCEPT !.cache[ino].disk_inode.direct[i + 1] = 0],
             ino, i + 1)

SaveFileBlocks(st, ino, data, blocks_needed) ==
    Only({ IF ~w.ok THEN Err(w.st)
           ELSE Ok(StoreInode(FreeExtraBlocks(w.st, ino, blocks_needed), ino,
                              BLen(data), blocks_needed), <<>>)
           : w \in {WriteFileBlocks(st, ino, data, 0, Min(blocks_needed, DIRECT_BLOCKS))} })

save_file_data(st, ino) ==
    IF st.cache[ino].file_type # "Regular" THEN Err(st)
    ELSE IF st.cache[ino].file_data = <<>> THEN Err(st)
    ELSE SaveFileBlocks(st, ino, st.cache[ino].file_data[1],
                        (BLen(st.cache[ino].file_data[1]) + BLOCK_SIZE - 1) \div BLOCK_SIZE)

(***************************************************************************)
(* impl Inode for CottonInode                                              *)
(***************************************************************************)
\* the copy out of the cached data into a buffer of buflen bytes
ReadData(data, offset, buflen) ==
    IF offset >= BLen(data) THEN <<>>
    ELSE BSlice(data, offset, offset + Min(buflen, BLen(data) - offset))

\* Ok(bytes copied into a buffer of buflen bytes)
inode_read(st, ino, offset, buflen) ==
    IF st.cache[ino].file_type # "Regular" THEN Err(st)
    ELSE Only({ IF ~l.ok THEN Err(l.st)
                ELSE Ok(l.st, ReadData(l.st.cache[ino].file_data[1], offset, buflen))
                : l \in {EnsureFileData(st, ino)} })

\* data.resize(size, 0) of truncate
TruncateData_kept(data, size) == data
TruncateData(data, size) == BResize(data, size)

\* the resize-if-needed and copy of write
WriteData(data, offset, buf) ==
    BCopyInto(IF offset + BLen(buf) > BLen(data) THEN BResize(data, offset + BLen(buf)) ELSE data,
              offset, buf)

\* get_or_insert_with(Vec::new)
OrEmpty(st, ino) ==
    IF st.cache[ino].file_data = <<>> THEN [st EXCEPT !.cache[ino].file_data = << <<>> >>] ELSE st

\* the cache after `if data.is_none() { let _ = self.load_file_data(); }`
\* and get_or_insert_with(Vec::new)
MaterializeData(st, ino) == OrEmpty(EnsureFileData(st, ino).st, ino)

\* the new content is stored, mark_dirty(), save_file_data()
SetAndSave(st, ino, data) ==
    save_file_data([st EXCEPT !.cache[ino].file_data = <<data>>, !.cache[ino].dirty = 1], ino)

WriteAndSave(st, ino, offset, buf) ==
    SetAndSave(st, ino, WriteData(st.cache[ino].file_data[1], offset, buf))

inode_write(st, ino, offset, buf) ==
    IF st.cache[ino].file_type # "Regular" THEN Err(st)
    ELSE OkWith(WriteAndSave(MaterializeData(st, ino), ino, offset, buf), BLen(buf))

TruncateAndSave(st, ino, size) ==
    SetAndSave(st, ino, TruncateData(st.cache[ino].file_data[1], size))

inode_truncate(st, ino, size) ==
    IF st.cache[ino].file_type # "Regular" THEN Err(st)
    ELSE OkWith(TruncateAndSave(MaterializeData(st, ino), ino, size), <<>>)

inode_sync(st, ino) ==
    IF st.cache[ino].dirty = 0 THEN Ok(st, <<>>)
    ELSE IF st.cache[ino].file_type = "Regular" THEN save_file_data(st, ino)
    ELSE IF st.cache[ino].file_type = "Directory" THEN save_dir_entries(st, ino)
    ELSE Ok(st, <<>>)

\* position of the first entry called name, 0 when there is none
RECURSIVE FindEntry(_, _, _)
FindEntry(entries, name, i) ==
    IF i > Len(entries) THEN 0
    ELSE IF entries[i].name = name THEN i
    ELSE FindEntry(entries, name, i + 1)

RemoveAt(seq, pos) == SubSeq(seq, 1, pos - 1) \o SubSeq(seq, pos + 1, Len(seq))

DiskDirEntry_new(ino, name, file_type) ==
    [inode |-> ino, name |-> name, file_type |-> IF file_type = "Directory" THEN 2 ELSE 1]

\* the inode of the entry at pos is loaded: Ok(<<ino>>), or Ok(<<>>) for pos = 0
LoadFound(st, entries, pos, g) ==
    IF pos = 0 THEN Ok(st, <<>>)
    ELSE Only({ IF ~i.ok THEN Err(i.st) ELSE Ok(i.st, <<i.v>>)
                : i \in {load_inode_internal(st, entries[pos].inode, g)} })

\* Ok(<<ino>>) or Ok(<<>>)
inode_lookup(st, dir, name, g) ==
    IF st.cache[dir].file_type # "Directory" THEN Err(st)
    ELSE Only({ IF ~l.ok THEN Err(l.st)
                ELSE LoadFound(l.st, l.st.cache[dir].dir_entries[1],
                               FindEntry(l.st.cache[dir].dir_entries[1], name, 1), g)
                : l \in {EnsureDirEntries(st, dir)} })

EntryNames(entries) == [i \in 1..Len(entries) |-> entries[i].name]

\* Ok(names listed after "." and "..")
inode_readdir(st, dir) ==
    IF st.cache[dir].file_type # "Directory" THEN Err(st)
    ELSE Only({ IF ~l.ok THEN Err(l.st)
                ELSE Ok(l.st, EntryNames(l.st.cache[dir].dir_entries[1]))
                : l \in {EnsureDirEntries(st, dir)} })

\* entries.push(DiskDirEntry::new(..)) on get_or_insert_with(Vec::new), mark_dirty()
PushEntry(st, dir, entry) ==
    [st EXCEPT !.cache[dir].dir_entries =
                   << Append(IF @ = <<>> THEN <<>> ELSE @[1], entry) >>,
               !.cache[dir].dirty = 1]

\* create and mkdir from the allocated inode on: the inode is written to
\* its slot, the entry is pushed, the directory is saved, the inode is loaded
AddInode(st, dir, name, kind, ino, u) ==
    Only({ IF ~sv.ok THEN Err(sv.st) ELSE load_inode_internal(sv.st, ino, u)
           : sv \in {save_dir_entries(
                        PushEntry(write_disk_inode(st, ino,
                                      IF kind = "Directory" THEN new_dir(u) ELSE new_file(u)),
                                  dir, DiskDirEntry_new(ino, name, kind)),
                        dir)} })

\* create and mkdir after `let _ = self.load_dir_entries()`
CreateLoaded(st, dir, name, kind, u) ==
    IF st.cache[dir].dir_entries # <<>> /\ FindEntry(st.cache[dir].dir_entries[1], name, 1) # 0
    THEN Err(st)
    ELSE Only({ IF ~a.ok THEN Err(a.st) ELSE AddInode(a.st, dir, name, kind, a.v, u)
                : a \in {alloc_inode(st)} })

\* create (kind = "Regular") and mkdir (kind = "Directory") differ only in
\* the disk inode and the entry type they build.
CreateEntry(st, dir, name, kind, u) ==
    IF st.cache[dir].file_type # "Directory" THEN Err(st)
    ELSE CreateLoaded(EnsureDirEntries(st, dir).st, dir, name, kind, u)

inode_create(st, dir, name, u) == CreateEntry(st, dir, name, "Regular", u)
inode_mkdir(st, dir, name, u) == CreateEntry(st, dir, name, "Directory", u)

\* unlink from the found position on
RemoveEntry(st, dir, entries, pos) ==
    IF pos = 0 THEN Err(st)
    ELSE Only({ IF ~sv.ok THEN Err(sv.st) ELSE free_inode(sv.st, entries[pos].inode)
                : sv \in {save_dir_entries(
                             [st EXCEPT !.cache[dir].dir_entries = <<RemoveAt(entries, pos)>>,
                                        !.cache[dir].dirty = 1],
                             dir)} })

inode_unlink(st, dir, name) ==
    IF st.cache[dir].file_type # "Directory" THEN Err(st)
    ELSE Only({ IF ~l.ok THEN Err(l.st)
                ELSE RemoveEntry(l.st, dir, l.st.cache[dir].dir_entries[1],
                                 FindEntry(l.st.cache[dir].dir_entries[1], name, 1))
                : l \in {EnsureDirEntries(st, dir)} })

(***************************************************************************)
(* impl FileSystem for CottonFS, CottonFS::new                             *)
(***************************************************************************)
SetMin(S) == CHOOSE x \in S : \A y \in S : x <= y

\* `for inode in cache.values() { if dirty { inode.sync()?; } }`
RECURSIVE SyncInodes(_, _)
SyncInodes(st, todo) ==
    IF todo = {} THEN Ok(st, <<>>)
    ELSE Only({ IF ~r.ok THEN Err(r.st) ELSE SyncInodes(r.st, todo \ {SetMin(todo)})
                : r \in {IF st.cache[SetMin(todo)].dirty # 0
                         THEN inode_sync(st, SetMin(todo)) ELSE Ok(st, <<>>)} })

fs_sync(st) ==
    Only({ IF ~r.ok THEN Err(r.st)
           ELSE Ok(sync_data_bitmap(sync_inode_bitmap(sync_superblock(r.st))), <<>>)
           : r \in {SyncInodes(st, DOMAIN st.cache)} })

get_stats(st) ==
    [ total_blocks |-> SaturatingSub(st.sb.total_blocks, DATA_BLOCKS_START),
      free_blocks  |-> st.sb.free_blocks,
      total_inodes |-> st.sb.total_inodes,
      free_inodes  |-> st.sb.free_inodes ]

EmptyCache == [n \in {} |-> 0]

format(st) ==
    write_disk_inode(sync_data_bitmap(sync_inode_bitmap(sync_superblock(st))),
                     ROOT_INODE, new_dir(0))

\* The in-memory fields CottonFS::new builds for a device without a valid
\* superblock, and for one with it.
FreshState(st) ==
    [st EXCEPT !.sb = Superblock_new(DeviceTotalBlocks),
               !.ibm = set_bit({}, InodeBitmapBytes, ROOT_INODE),
               !.dbm = {},
               !.cache = EmptyCache]

LoadedState(st) ==
    [st EXCEPT !.sb = st.dsb[1], !.ibm = st.dibm, !.dbm = st.ddbm, !.cache = EmptyCache]

\* CottonFS::new on the device part of st: every in-memory field is rebuilt.
CottonFS_new(st, g) ==
    load_inode_internal(IF st.dsb = <<>> THEN format(FreshState(st)) ELSE LoadedState(st),
                        ROOT_INODE, g)

(***************************************************************************)
(* fs/mod.rs: path wrappers, for paths "/name"                             *)
(***************************************************************************)
\* Option to Result: Ok(Some(ino)) is Ok(ino), Ok(None) and Err are Err
Found(r) == IF ~r.ok \/ r.v = <<>> THEN Err(r.st) ELSE Ok(r.st, r.v[1])

\* lookup(path): Ok(ino) or Err("Not found")
vfs_lookup(st, name, g) == Found(inode_lookup(st, ROOT_INODE, name, g))

ReadWhole(l) ==
    IF ~l.ok THEN Err(l.st)
    ELSE inode_read(l.st, l.v, 0, l.st.cache[l.v].disk_inode.size)

read_file(st, name, g) == ReadWhole(vfs_lookup(st, name, g))

\* write(0, data)?; sync()?; on the inode o.v: Ok(ino written)
WriteAndSync(o, data) ==
    IF ~o.ok THEN Err(o.st)
    ELSE Only({ IF ~w.ok THEN Err(w.st) ELSE OkWith(inode_sync(w.st, o.v), o.v)
                : w \in {inode_write(o.st, o.v, 0, data)} })

\* the inode write_file writes: the existing one after `let _ = truncate(0)`,
\* or a newly created one
OpenForWrite(l, name, u) ==
    IF l.ok THEN Ok(inode_truncate(l.st, l.v, 0).st, l.v)
    ELSE inode_create(l.st, ROOT_INODE, name, u)

write_file(st, name, data, u) ==
    WriteAndSync(OpenForWrite(vfs_lookup(st, name, u), name, u), data)

(***************************************************************************)
(* Processes and the scheduler (proc/mod.rs, proc/process.rs,              *)
(* proc/scheduler.rs)                                                      *)
(*                                                                         *)
(* A scheduler state k is a record: procs (PROCESSES: pid -> process),     *)
(* queues (run_queues, priority 0..4 -> sequence of pids), current, cpu    *)
(* (where the thread of control stands: between calls, or inside sleep_ms  *)
(* or wait), stopped, sel (what the last schedule() selected) and since    *)
(* (timer ticks since the last schedule()).                                *)
(*                                                                         *)
(* context_switch saves no context and loads no instruction pointer: when  *)
(* both processes have a context in the table, do_context_switch loads the *)
(* stack pointer of the new one and returns.  Control then either goes on  *)
(* in the caller, as it does where the stub is empty, or is lost and the   *)
(* machine stops.  In every other case control goes on in the caller.      *)
(***************************************************************************)
\* Bounds: pids handed out, timer ticks, sleep durations.
MaxPid == 4
MaxTicks == 12
MaxEntered == 3
SleepTimes == {0, 2}
ExitStatuses == {0}

\* what a load of the stack pointer inside do_context_switch leads to
SwitchOutcomes == {"returns", "stops"}

\* Priority as usize: Idle, Low, Normal, High, Realtime
PriorityIdle == 0
PriorityNormal == 2
PriorityHigh == 3
PriorityRealtime == 4
SpawnPriorities == {PriorityNormal, PriorityHigh}
TIME_SLICE == 10

new_kernel ==
    [ state |-> "Created", priority |-> PriorityNormal, time_slice |-> TIME_SLICE,
      exit_status |-> <<>> ]

\* Process::fork: a new process with the parent's priority
Process_fork(parent) == [new_kernel EXCEPT !.priority = parent.priority]

\* where the thread of control stands: pc = "run" between calls, or inside
\* sleep_ms (pid and wake_tick read) or wait (pid waited for)
Running(pc, pid, wake) == [pc |-> pc, pid |-> pid, wake |-> wake]
AtEntry == Running("run", <<>>, 0)
\* sleep_ms has returned; wake is the wake_tick it had computed
Returned(wake) == Running("run", <<>>, wake)

\* scheduler::add_process
sched_add_process(k, pid) ==
    IF pid \in DOMAIN k.procs
    THEN [k EXCEPT !.queues[k.procs[pid].priority] = Append(@, pid)]
    ELSE k

\* proc::add_process
add_process(k, pid, process) ==
    sched_add_process([k EXCEPT !.procs = (pid :> process) @@ k.procs], pid)

\* the highest priority with a non-empty queue, -1 when all are empty
RECURSIVE FirstNonEmpty(_, _)
FirstNonEmpty(queues, q) ==
    IF q < PriorityIdle THEN -1
    ELSE IF queues[q] # <<>> THEN q
    ELSE FirstNonEmpty(queues, q - 1)

\* select_next at queue q (-1: no runnable process, the idle pid)
PopFrom(k, q, idle) ==
    IF q = -1 THEN [k EXCEPT !.current = idle]
    ELSE [k EXCEPT !.current = <<Head(k.queues[q])>>, !.queues[q] = Tail(@)]

select_next(k, idle) == PopFrom(k, FirstNonEmpty(k.queues, PriorityRealtime), idle)

HasContext(k, p) == p # <<>> /\ p[1] \in DOMAIN k.procs

\* schedule(): `if process.state == Running { Ready; time_slice = 10; push_back }`
Requeue(k) ==
    IF HasContext(k, k.current) /\ k.procs[k.current[1]].state = "Running"
    THEN [k EXCEPT !.procs[k.current[1]].state = "Ready",
                   !.procs[k.current[1]].time_slice = TIME_SLICE,
                   !.queues[k.procs[k.current[1]].priority] = Append(@, k.current[1])]
    ELSE k

ReadyPriorities(k) == {k.procs[p].priority : p \in {x \in DOMAIN k.procs : k.procs[x].state = "Ready"}}

\* what schedule() selected, observed before the process is marked Running
Selection(k) ==
    IF HasContext(k, k.current)
    THEN [ state |-> k.procs[k.current[1]].state, priority |-> k.procs[k.current[1]].priority,
           ready |-> ReadyPriorities(k) ]
    ELSE [ state |-> "none", priority |-> -1, ready |-> ReadyPriorities(k) ]

\* schedule(): `if let Some(process) = processes.get_mut(&pid) { state = Running }`
MarkRunning(k) ==
    IF HasContext(k, k.current)
    THEN [k EXCEPT !.procs[k.current[1]].state = "Running", !.sel = Selection(k), !.since = 0]
    ELSE [k EXCEPT !.sel = Selection(k), !.since = 0]

\* context_switch(old, new), do_context_switch
context_switch(k, old, new, outcome) ==
    IF HasContext(k, old) /\ HasContext(k, new) /\ outcome = "stops"
    THEN [k EXCEPT !.stopped = TRUE]
    ELSE k

SwitchFrom(k, old, outcome) ==
    IF old # k.current THEN context_switch(k, old, k.current, outcome) ELSE k

\* schedule() with the scheduler enabled
schedule(k, idle, outcome) ==
    Only({ SwitchFrom(marked, k.current, outcome) :
             marked \in { MarkRunning(selected) :
                 selected \in { select_next(queued, idle) : queued \in {Requeue(k)} } } })

(***************************************************************************)
(* State of the filesystem model                                           *)
(***************************************************************************)
VARIABLES
    superblock,        \* CottonFS.superblock
    inode_bitmap,      \* CottonFS.inode_bitmap
    data_bitmap,       \* CottonFS.data_bitmap
    inode_cache,       \* CottonFS.inode_cache: ino -> CottonInode
    dev_superblock,    \* device block 0: <<>> until a valid superblock is written
    dev_inode_bitmap,  \* device blocks 1..31
    dev_data_bitmap,   \* device blocks 32..63
    dev_inode_table,   \* device blocks 64..127: ino -> 128-byte slot
    dev_blocks,        \* device blocks 128..: block -> content
    remounts,          \* number of re-mounts so far
    calls,             \* number of calls so far
    last,              \* the last call and its result
    persisted          \* the last write_file or unlink, and whether sync and re-mount followed

fsvars == << superblock, inode_bitmap, data_bitmap, inode_cache, dev_superblock,
             dev_inode_bitmap, dev_data_bitmap, dev_inode_table, dev_blocks,
             remounts, calls, last, persisted >>

VARIABLES
    processes,         \* PROCESSES: pid -> process
    run_queues,        \* Scheduler.run_queues
    current,           \* Scheduler.current
    enabled,           \* SCHEDULER_ENABLED
    tick_count,        \* TICK_COUNT
    next_pid,          \* NEXT_PID
    cpu,               \* where the executing thread stands
    stopped,           \* control was lost in do_context_switch
    sel,               \* what the last schedule() selected
    since,             \* timer ticks since the last schedule()
    entered            \* number of calls entered so far

schedvars == <<processes, run_queues, current, enabled, tick_count, next_pid, cpu, stopped,
               sel, since, entered>>

VARIABLES
    mutex,             \* one sync::Mutex: locked, owner, waiters
    task               \* where each kernel task that uses the mutex stands

mutexvars == <<mutex, task>>

VARIABLES
    spin,              \* each spin::Mutex of the interrupt paths: free, or who holds it
    task_path,         \* what is left of the call the interrupted thread is in
    in_irq,            \* an interrupt handler is running
    irq_path           \* what is left of the running handler

irqvars == <<spin, task_path, in_irq, irq_path>>

VARIABLES
    fs_locks,          \* each lock of CottonFS: the guards that are alive, as <<thread, mode>>
    fs_path            \* what is left of the CottonFS call each thread is in

lockvars == <<fs_locks, fs_path>>

VARIABLES
    allocator,         \* FRAME_ALLOCATOR: bitmap, first_free, total_pages, free_pages
    handed,            \* the pages alloc and alloc_contiguous returned and no call freed
    memory,            \* physical frames written as page tables: address -> index -> entry
    ram,               \* what the frames never written as page tables hold
    mem_last,          \* the last paging call, its arguments and its result
    retry,             \* a failed map_page on an exhausted allocator, a free, a repeat
    mem_calls          \* number of memory calls so far

memvars == <<allocator, handed, memory, ram, mem_last, retry, mem_calls>>

VARIABLES
    regs,              \* the registers user code sees
    sys_pc,            \* where user code stands: running, or astray after SYSCALL
    sys_last           \* the last system call: registers at entry, the call made, its result

sysvars == <<regs, sys_pc, sys_last>>

VARIABLES
    rwlock,            \* one sync::RwLock: readers, writer
    rw_task            \* where each task that uses the RwLock stands

rwvars == <<rwlock, rw_task>>

VARIABLES
    rmutex,            \* one sync::RecursiveMutex: locked, owner, count
    rm_task            \* each task that uses it: where it stands, the guards it holds

rmvars == <<rmutex, rm_task>>

VARIABLES
    cv_mutex,          \* the sync::Mutex whose guard is passed to CondVar::wait
    cv_waiters,        \* CondVar.waiters
    cv_notified,       \* the PIDs notify_one and notify_all popped
    cv_task,           \* where each task that uses the CondVar stands
    cv_panicked        \* the kernel has panicked

cvvars == <<cv_mutex, cv_waiters, cv_notified, cv_task, cv_panicked>>

VARIABLES
    barrier,           \* one sync::Barrier: count, current, generation, waiters
    arrivals,          \* number of arrivals (`*current += 1`) so far
    bar_task           \* each task that uses the Barrier: where it stands in wait()

barvars == <<barrier, arrivals, bar_task>>

VARIABLES
    ata,               \* the drive of one ATA channel: its task-file registers, its command
    ata_task           \* each task's block-device request: where it stands

atavars == <<ata, ata_task>>

VARIABLES
    mounts,            \* MOUNTS: the mount points, in the order they were pushed
    mount_last         \* the last lookup: the path, and the mount it went through

mountvars == <<mounts, mount_last>>

VARIABLES
    cfs,               \* a CottonFS that several tasks call: memory and device
    cf_task,           \* where each task stands in create or mkdir, and its locals
    cf_written,        \* inode -> the image the last completed write_disk_inode wrote
    cf_calls           \* number of create and mkdir calls so far

cfvars == <<cfs, cf_task, cf_written, cf_calls>>

VARIABLES
    heap               \* mm::heap: "none" before init; the virtual pages of the heap

heapvars == <<heap>>

VARIABLES
    pk,                \* the processes and the scheduler, as SchedState
    pk_allocator,      \* FRAME_ALLOCATOR
    pk_idle,           \* Scheduler.idle_pid
    pk_stacks,         \* pid -> first frame of Process.kernel_stack
    pk_next_pid,       \* NEXT_PID
    pk_enabled,        \* SCHEDULER_ENABLED
    pk_forked,         \* child pid -> the free frames and the processes before its fork
    pk_last,           \* the process wait reaped last
    pk_calls           \* number of calls so far

reapvars == <<pk, pk_allocator, pk_idle, pk_stacks, pk_next_pid, pk_enabled, pk_forked,
              pk_last, pk_calls>>

VARIABLES
    cr,                \* a CottonFS with a subdirectory: memory and device
    cr_last,           \* the last create or mkdir: its result, lookup and free_inodes around it
    cr_calls           \* number of calls so far

crvars == <<cr, cr_last, cr_calls>>

VARIABLES
    boot_pc,           \* the step of kernel_main the boot processor is about to run; 0 after a panic
    intr,               \* the interrupt machinery: IDT loaded, PIC mask, interrupt flag, PS/2 IRQ1
    kernel_heap,       \* ALLOCATOR: "empty" until heap::init has run, then "ready"
    keyboard,          \* EXTENDED_KEY, MODIFIERS.shift and the length and last event of KEYBOARD_BUFFER
    boot_last,         \* the last keyboard handler invocation: scancode, heap state, what it did
    boot_irqs          \* number of keyboard interrupts so far

bootvars == <<boot_pc, intr, kernel_heap, keyboard, boot_last, boot_irqs>>

VARIABLES
    sem,               \* one sync::BinarySemaphore: count and waiters of its Semaphore
    sem_task,          \* where each task that uses the semaphore stands, and the count it loaded
    sem_calls          \* number of calls begun so far

semvars == <<sem, sem_task, sem_calls>>

VARIABLES
    ab,                \* a CottonFS on a device of ab_sectors sectors: memory and device
    ab_sectors,        \* the sector count of the device, which total_blocks() returns
    ab_last,           \* the last alloc_block or free_block: its result
    ab_calls           \* number of calls so far

abvars == <<ab, ab_sectors, ab_last, ab_calls>>

VARIABLES
    ai,                \* a CottonFS that holds many inodes: memory and device
    ai_last,           \* the last alloc_inode or free_inode: its result, free_inodes before it
    ai_calls           \* number of calls so far

aivars == <<ai, ai_last, ai_calls>>

\* the state outside the filesystem and the scheduler
restvars == <<mutexvars, irqvars, lockvars, memvars, sysvars, rwvars, rmvars, cvvars, barvars, atavars, mountvars, cfvars, heapvars, reapvars, crvars, bootvars, semvars, abvars, aivars>>

\* the state a step of one part leaves alone
notmutex == <<fsvars, irqvars, lockvars, memvars, sysvars, rwvars, rmvars, cvvars, barvars,
    atavars, mountvars, cfvars, heapvars, reapvars, crvars, bootvars, semvars, abvars,
    aivars>>
notirq == <<fsvars, schedvars, mutexvars, lockvars, memvars, sysvars, rwvars, rmvars,
    cvvars, barvars, atavars, mountvars, cfvars, heapvars, reapvars, crvars, bootvars,
    semvars, abvars, aivars>>
notlocks == <<fsvars, schedvars, mutexvars, irqvars, memvars, sysvars, rwvars, rmvars,
    cvvars, barvars, atavars, mountvars, cfvars, heapvars, reapvars, crvars, bootvars,
    semvars, abvars, aivars>>
notmem == <<fsvars, schedvars, mutexvars, irqvars, lockvars, sysvars, rwvars, rmvars,
    cvvars, barvars, atavars, mountvars, cfvars, heapvars, reapvars, crvars, bootvars,
    semvars, abvars, aivars>>
notsys == <<fsvars, schedvars, mutexvars, irqvars, lockvars, memvars, rwvars, rmvars,
    cvvars, barvars, atavars, mountvars, cfvars, heapvars, reapvars, crvars, bootvars,
    semvars, abvars, aivars>>
notrw == <<fsvars, schedvars, mutexvars, irqvars, lockvars, memvars, sysvars, rmvars,
    cvvars, barvars, atavars, mountvars, cfvars, heapvars, reapvars, crvars, bootvars,
    semvars, abvars, aivars>>
notrm == <<fsvars, schedvars, mutexvars, irqvars, lockvars, memvars, sysvars, rwvars,
    cvvars, barvars, atavars, mountvars, cfvars, heapvars, reapvars, crvars, bootvars,
    semvars, abvars, aivars>>
notcv == <<fsvars, schedvars, mutexvars, irqvars, lockvars, memvars, sysvars, rwvars,
    rmvars, barvars, atavars, mountvars, cfvars, heapvars, reapvars, crvars, bootvars,
    semvars, abvars, aivars>>
notbar == <<fsvars, schedvars, mutexvars, irqvars, lockvars, memvars, sysvars, rwvars,
    rmvars, cvvars, atavars, mountvars, cfvars, heapvars, reapvars, crvars, bootvars,
    semvars, abvars, aivars>>
notata == <<fsvars, schedvars, mutexvars, irqvars, lockvars, memvars, sysvars, rwvars,
    rmvars, cvvars, barvars, mountvars, cfvars, heapvars, reapvars, crvars, bootvars,
    semvars, abvars, aivars>>
notmount == <<fsvars, schedvars, mutexvars, irqvars, lockvars, memvars, sysvars, rwvars,
    rmvars, cvvars, barvars, atavars, cfvars, heapvars, reapvars, crvars, bootvars,
    semvars, abvars, aivars>>
notcf == <<fsvars, schedvars, mutexvars, irqvars, lockvars, memvars, sysvars, rwvars,
    rmvars, cvvars, barvars, atavars, mountvars, heapvars, reapvars, crvars, bootvars,
    semvars, abvars, aivars>>
notheap == <<fsvars, schedvars, mutexvars, irqvars, lockvars, memvars, sysvars, rwvars,
    rmvars, cvvars, barvars, atavars, mountvars, cfvars, reapvars, crvars, bootvars,
    semvars, abvars, aivars>>
notreap == <<fsvars, schedvars, mutexvars, irqvars, lockvars, memvars, sysvars, rwvars,
    rmvars, cvvars, barvars, atavars, mountvars, cfvars, heapvars, crvars, bootvars,
    semvars, abvars, aivars>>
notcr == <<fsvars, schedvars, mutexvars, irqvars, lockvars, memvars, sysvars, rwvars,
    rmvars, cvvars, barvars, atavars, mountvars, cfvars, heapvars, reapvars, bootvars,
    semvars, abvars, aivars>>
notboot == <<fsvars, schedvars, mutexvars, irqvars, lockvars, memvars, sysvars, rwvars,
    rmvars, cvvars, barvars, atavars, mountvars, cfvars, heapvars, reapvars, crvars,
    semvars, abvars, aivars>>
notsem == <<fsvars, schedvars, mutexvars, irqvars, lockvars, memvars, sysvars, rwvars,
    rmvars, cvvars, barvars, atavars, mountvars, cfvars, heapvars, reapvars, crvars,
    bootvars, abvars, aivars>>
notab == <<fsvars, schedvars, mutexvars, irqvars, lockvars, memvars, sysvars, rwvars,
    rmvars, cvvars, barvars, atavars, mountvars, cfvars, heapvars, reapvars, crvars,
    bootvars, semvars, aivars>>
notai == <<fsvars, schedvars, mutexvars, irqvars, lockvars, memvars, sysvars, rwvars,
    rmvars, cvvars, barvars, atavars, mountvars, cfvars, heapvars, reapvars, crvars,
    bootvars, semvars, abvars>>

\* the state heap::init leaves alone
notmemheap == <<fsvars, schedvars, mutexvars, irqvars, lockvars, sysvars, rwvars, rmvars,
    cvvars, barvars, atavars, mountvars, cfvars, reapvars, crvars, bootvars, semvars, abvars, aivars>>

vars == <<fsvars, schedvars, restvars>>

FsState ==
    [ sb |-> superblock, ibm |-> inode_bitmap, dbm |-> data_bitmap, cache |-> inode_cache,
      dsb |-> dev_superblock, dibm |-> dev_inode_bitmap, ddbm |-> dev_data_bitmap,
      dino |-> dev_inode_table, dblk |-> dev_blocks ]

SetFs(st) ==
    /\ superblock' = st.sb
    /\ inode_bitmap' = st.ibm
    /\ data_bitmap' = st.dbm
    /\ inode_cache' = st.cache
    /\ dev_superblock' = st.dsb
    /\ dev_inode_bitmap' = st.dibm
    /\ dev_data_bitmap' = st.ddbm
    /\ dev_inode_table' = st.dino
    /\ dev_blocks' = st.dblk

BlankDevice ==
    [ sb |-> Superblock_new(0), ibm |-> {}, dbm |-> {}, cache |-> EmptyCache,
      dsb |-> <<>>, dibm |-> {}, ddbm |-> {},
      dino |-> [n \in {} |-> ZeroImage], dblk |-> [b \in {} |-> FileBlock(<<>>)] ]

\* Inputs of the explored calls: one byte, nine blocks, one byte more than
\* the direct pointers can address.
Contents == { BFill(1, 1), BFill(2, 9 * BLOCK_SIZE), BFill(3, DIRECT_BLOCKS * BLOCK_SIZE + 1) }
TruncateSizes == { BLOCK_SIZE }

\* prev is the content the cache held for the file before a write_file
\* (<<>> when there was none).
Call(op, name, ok, ino, prev) == [op |-> op, name |-> name, ok |-> ok, ino |-> ino, prev |-> prev]
NoCall == Call("mount", "", TRUE, 0, <<>>)

\* stage: 1 after the call, 2 after a following sync, 3 after a following
\* re-mount; 0 when another modifying call intervened.
Untracked == [op |-> "", name |-> "", data |-> <<>>, stage |-> 0]
Tracked(op, name, data) == [op |-> op, name |-> name, data |-> data, stage |-> 1]

FsInit ==
    \E st \in {CottonFS_new(BlankDevice, 0).st} :
    /\ superblock = st.sb
    /\ inode_bitmap = st.ibm
    /\ data_bitmap = st.dbm
    /\ inode_cache = st.cache
    /\ dev_superblock = st.dsb
    /\ dev_inode_bitmap = st.dibm
    /\ dev_data_bitmap = st.ddbm
    /\ dev_inode_table = st.dino
    /\ dev_blocks = st.dblk
    /\ remounts = 0
    /\ calls = 0
    /\ last = NoCall
    /\ persisted = Untracked

(***************************************************************************)
(* Filesystem calls                                                        *)
(***************************************************************************)
\* every call counts against the length of the run; the filesystem calls
\* leave the processes alone
Counted == calls < MaxCalls /\ calls' = calls + 1 /\ UNCHANGED <<schedvars, restvars>>

\* fs::create("/name")
FsCreate(name, u) ==
    /\ Counted
    /\ \E r \in {inode_create(FsState, ROOT_INODE, name, u)} :
       /\ SetFs(r.st)
       /\ last' = Call("create", name, r.ok, IF r.ok THEN r.v ELSE 0, <<>>)
       /\ persisted' = Untracked
       /\ UNCHANGED remounts

\* fs::mkdir("/name")
FsMkdir(name, u) ==
    /\ Counted
    /\ \E r \in {inode_mkdir(FsState, ROOT_INODE, name, u)} :
       /\ SetFs(r.st)
       /\ last' = Call("mkdir", name, r.ok, IF r.ok THEN r.v ELSE 0, <<>>)
       /\ persisted' = Untracked
       /\ UNCHANGED remounts

\* fs::remove("/name")
FsRemove(name) ==
    /\ Counted
    /\ \E r \in {inode_unlink(FsState, ROOT_INODE, name)} :
       /\ SetFs(r.st)
       /\ last' = Call("unlink", name, r.ok, 0, <<>>)
       /\ persisted' = IF r.ok THEN Tracked("unlink", name, <<>>) ELSE Untracked
       /\ UNCHANGED remounts

\* the content the cache holds for /name: <<data>>, or <<>>
CachedContent(st, name) ==
    LET root == st.cache[ROOT_INODE]
        pos == IF root.dir_entries = <<>> THEN 0 ELSE FindEntry(root.dir_entries[1], name, 1)
        ino == IF pos = 0 THEN 0 ELSE root.dir_entries[1][pos].inode
    IN  IF ino \in DOMAIN st.cache THEN st.cache[ino].file_data ELSE <<>>

\* fs::write_file("/name", data)
FsWriteFile(name, data, u) ==
    /\ Counted
    /\ \E r \in {write_file(FsState, name, data, u)} :
       /\ SetFs(r.st)
       /\ last' = Call("write_file", name, r.ok, IF r.ok THEN r.v ELSE 0, CachedContent(FsState, name))
       /\ persisted' = IF r.ok THEN Tracked("write_file", name, data) ELSE Untracked
       /\ UNCHANGED remounts

\* fs::read_file("/name")
FsReadFile(name, g) ==
    /\ Counted
    /\ \E r \in {read_file(FsState, name, g)} :
       /\ SetFs(r.st)
       /\ last' = Call("read_file", name, r.ok, 0, <<>>)
       /\ UNCHANGED << remounts, persisted >>

\* fs::lookup("/name") then Inode::truncate(size)
FsTruncate(name, size, g) ==
    /\ Counted
    /\ \E l \in {vfs_lookup(FsState, name, g)} :
       \E r \in {IF l.ok THEN inode_truncate(l.st, l.v, size) ELSE Err(l.st)} :
       /\ SetFs(r.st)
       /\ last' = Call("truncate", name, r.ok, IF l.ok THEN l.v ELSE 0, <<>>)
       /\ persisted' = Untracked
       /\ UNCHANGED remounts

\* FileSystem::sync
FsSync ==
    /\ Counted
    /\ \E r \in {fs_sync(FsState)} :
       /\ SetFs(r.st)
       /\ last' = Call("sync", "", r.ok, 0, <<>>)
       /\ persisted' = IF r.ok /\ persisted.stage >= 1
                       THEN [persisted EXCEPT !.stage = Max(2, @)] ELSE Untracked
       /\ UNCHANGED remounts

\* Re-mount: the in-memory state is dropped and CottonFS::new runs on the device.
Remount(g) ==
    /\ Counted
    /\ remounts < MaxRemounts
    /\ \E r \in {CottonFS_new(FsState, g)} :
          /\ SetFs(r.st)
          /\ last' = Call("mount", "", r.ok, 0, <<>>)
    /\ remounts' = remounts + 1
    /\ persisted' = IF persisted.stage >= 2 THEN [persisted EXCEPT !.stage = 3] ELSE Untracked

FsNext ==
    \/ \E name \in FileNames, u \in UninitWords : FsCreate(name, u)
    \/ \E name \in DirNames, u \in UninitWords : FsMkdir(name, u)
    \/ \E name \in Names : FsRemove(name)
    \/ \E name \in FileNames, data \in Contents, u \in UninitWords : FsWriteFile(name, data, u)
    \/ \E name \in FileNames, g \in UninitWords : FsReadFile(name, g)
    \/ \E name \in FileNames, size \in TruncateSizes, g \in UninitWords : FsTruncate(name, size, g)
    \/ FsSync
    \/ \E g \in UninitWords : Remount(g)


(***************************************************************************)
(* State of the processes and the scheduler; calls, steps and the timer    *)
(***************************************************************************)
\* proc::init allocates pid 1 for init, scheduler::init pid 2 for idle
InitPid == 1
idle_pid == <<2>>
FirstFreePid == 3

SchedState ==
    [ procs |-> processes, queues |-> run_queues, current |-> current, cpu |-> cpu,
      stopped |-> stopped, sel |-> sel, since |-> since ]

SetSched(k) ==
    /\ processes' = k.procs
    /\ run_queues' = k.queues
    /\ current' = k.current
    /\ cpu' = k.cpu
    /\ stopped' = k.stopped
    /\ sel' = k.sel
    /\ since' = k.since

NoSelection == [ state |-> "none", priority |-> -1, ready |-> {} ]

\* proc::init, scheduler::init: init is in the table and in no run queue,
\* idle is in neither
SchedInit ==
    /\ processes = (InitPid :> new_kernel)
    /\ run_queues = [q \in PriorityIdle..PriorityRealtime |-> <<>>]
    /\ current = <<>>
    /\ enabled = FALSE
    /\ tick_count = 0
    /\ next_pid = FirstFreePid
    /\ cpu = AtEntry
    /\ stopped = FALSE
    /\ sel = NoSelection
    /\ since = 0
    /\ entered = 0

\* schedule(), which returns at once while the scheduler is disabled
Schedule(k, outcome) == IF enabled THEN schedule(k, idle_pid, outcome) ELSE k

\* the executing thread is between calls
AtCall == ~stopped /\ cpu.pc = "run"

\* a call is entered, which counts against the length of the run
Enter == AtCall /\ entered < MaxEntered /\ entered' = entered + 1

\* scheduler::start
Start ==
    /\ AtCall /\ ~enabled
    /\ enabled' = TRUE
    /\ UNCHANGED <<processes, run_queues, current, tick_count, next_pid, cpu, stopped, sel,
                   since>>
    /\ UNCHANGED <<fsvars, restvars>>
    /\ UNCHANGED entered

\* Process::new_kernel, a priority, proc::add_process
Spawn(priority) ==
    /\ Enter /\ next_pid <= MaxPid
    /\ next_pid' = next_pid + 1
    /\ SetSched(add_process(SchedState, next_pid, [new_kernel EXCEPT !.priority = priority]))
    /\ UNCHANGED <<enabled, tick_count>>
    /\ UNCHANGED <<fsvars, restvars>>

\* proc::fork
Fork ==
    /\ Enter /\ next_pid <= MaxPid
    /\ HasContext(SchedState, current)
    /\ next_pid' = next_pid + 1
    /\ SetSched(add_process(SchedState, next_pid, Process_fork(processes[current[1]])))
    /\ UNCHANGED <<enabled, tick_count>>
    /\ UNCHANGED <<fsvars, restvars>>

\* scheduler::yield_now
Yield(outcome) ==
    /\ Enter /\ enabled
    /\ SetSched(Schedule(SchedState, outcome))
    /\ UNCHANGED <<enabled, tick_count, next_pid>>
    /\ UNCHANGED <<fsvars, restvars>>

MarkZombie(k, status) ==
    IF HasContext(k, k.current)
    THEN [k EXCEPT !.procs[k.current[1]].exit_status = <<status>>,
                   !.procs[k.current[1]].state = "Zombie"]
    ELSE k

\* proc::exit
Exit(status, outcome) ==
    /\ Enter
    /\ SetSched(Schedule(MarkZombie(SchedState, status), outcome))
    /\ UNCHANGED <<enabled, tick_count, next_pid>>
    /\ UNCHANGED <<fsvars, restvars>>

\* proc::wait is entered
WaitBegin(pid) ==
    /\ Enter
    /\ cpu' = Running("wait", <<pid>>, 0)
    /\ UNCHANGED <<processes, run_queues, current, enabled, tick_count, next_pid, stopped,
                   sel, since>>
    /\ UNCHANGED <<fsvars, restvars>>

\* one turn of the loop of proc::wait
wait_turn(k, pid, outcome) ==
    IF pid \notin DOMAIN k.procs THEN [k EXCEPT !.cpu = AtEntry]
    ELSE IF k.procs[pid].state = "Zombie"
    THEN [k EXCEPT !.procs = [p \in DOMAIN k.procs \ {pid} |-> k.procs[p]], !.cpu = AtEntry]
    ELSE Schedule(k, outcome)

WaitTurn(outcome) ==
    /\ ~stopped /\ cpu.pc = "wait"
    /\ \E k \in {wait_turn(SchedState, cpu.pid[1], outcome)} : SetSched(k)
    /\ UNCHANGED <<enabled, tick_count, next_pid, entered>>
    /\ UNCHANGED <<fsvars, restvars>>

\* sleep_ms: wake_tick and the current pid are read
SleepBegin(ms) ==
    /\ Enter
    /\ cpu' = IF current = <<>> THEN Returned(tick_count + ms)
              ELSE Running("sleep_mark", current, tick_count + ms)
    /\ UNCHANGED <<processes, run_queues, current, enabled, tick_count, next_pid, stopped,
                   sel, since>>
    /\ UNCHANGED <<fsvars, restvars>>

SetState(k, pid, state) ==
    IF HasContext(k, pid) THEN [k EXCEPT !.procs[pid[1]].state = state] ELSE k

\* sleep_ms: the process is marked Sleeping
SleepMark ==
    /\ ~stopped /\ cpu.pc = "sleep_mark"
    /\ SetSched([SetState(SchedState, cpu.pid, "Sleeping") EXCEPT !.cpu.pc = "sleep_wait"])
    /\ UNCHANGED <<enabled, tick_count, next_pid, entered>>
    /\ UNCHANGED <<fsvars, restvars>>

\* sleep_ms: one turn of the busy wait, or the process is marked Ready
sleep_turn(k, outcome) ==
    IF tick_count < k.cpu.wake THEN Schedule(k, outcome)
    ELSE [SetState(k, k.cpu.pid, "Ready") EXCEPT !.cpu = Returned(k.cpu.wake)]

SleepTurn(outcome) ==
    /\ ~stopped /\ cpu.pc = "sleep_wait"
    /\ SetSched(sleep_turn(SchedState, outcome))
    /\ UNCHANGED <<enabled, tick_count, next_pid, entered>>
    /\ UNCHANGED <<fsvars, restvars>>

\* timer_tick: `if process.time_slice > 0 { process.time_slice -= 1 }`
SliceAfterTick_kept(time_slice) == time_slice
SliceAfterTick(time_slice) == IF time_slice > 0 THEN time_slice - 1 ELSE time_slice

Charge(k) ==
    IF HasContext(k, k.current)
    THEN [k EXCEPT !.procs[k.current[1]].time_slice = SliceAfterTick(@), !.since = @ + 1]
    ELSE [k EXCEPT !.since = @ + 1]

should_schedule(k) ==
    IF HasContext(k, k.current) THEN k.procs[k.current[1]].time_slice = 0 ELSE TRUE

ScheduleIfDue(k, outcome) == IF should_schedule(k) THEN Schedule(k, outcome) ELSE k

\* timer_tick
timer_tick(k, outcome) == IF enabled THEN ScheduleIfDue(Charge(k), outcome) ELSE k

TimerTick(outcome) ==
    /\ ~stopped /\ tick_count < MaxTicks
    /\ tick_count' = tick_count + 1
    /\ SetSched(timer_tick(SchedState, outcome))
    /\ UNCHANGED <<enabled, next_pid, entered>>
    /\ UNCHANGED <<fsvars, restvars>>

Pids == FirstFreePid..MaxPid

SchedNext ==
    \/ Start
    \/ \E priority \in SpawnPriorities : Spawn(priority)
    \/ Fork
    \/ \E outcome \in SwitchOutcomes : Yield(outcome)
    \/ \E status \in ExitStatuses, outcome \in SwitchOutcomes : Exit(status, outcome)
    \/ \E pid \in Pids : WaitBegin(pid)
    \/ \E outcome \in SwitchOutcomes : WaitTurn(outcome)
    \/ \E ms \in SleepTimes : SleepBegin(ms)
    \/ SleepMark
    \/ \E outcome \in SwitchOutcomes : SleepTurn(outcome)
    \/ \E outcome \in SwitchOutcomes : TimerTick(outcome)

(***************************************************************************)
(* sync::Mutex, used by kernel tasks that lock it once, unlock it and exit *)
(***************************************************************************)
MaxWaiters == 2

Mutex_new == [ locked |-> FALSE, owner |-> 0, waiters |-> <<>> ]

\* Mutex::try_lock: the compare_exchange on locked, then the owner
try_lock(m, pid) ==
    IF m.locked THEN m
    ELSE [m EXCEPT !.locked = TRUE, !.owner = IF pid = <<>> THEN @ ELSE pid[1]]

\* waiters.push_back; unlock drops what it pops, so the entries beyond
\* MaxWaiters are not kept
push_waiter(m, pid) ==
    IF pid = <<>> \/ Len(m.waiters) >= MaxWaiters THEN m
    ELSE [m EXCEPT !.waiters = Append(@, pid[1])]

\* Mutex::unlock
unlock(m) ==
    [m EXCEPT !.owner = 0, !.locked = FALSE,
              !.waiters = IF @ = <<>> THEN @ ELSE Tail(@)]

MutexInit ==
    /\ mutex = Mutex_new
    /\ task = [p \in FirstFreePid..MaxPid |-> "out"]

\* process p is the one the scheduler has made current, and it executes
Runs(p) == ~stopped /\ enabled /\ current = <<p>> /\ p \in DOMAIN processes

\* Mutex::lock, top of the loop: try_lock
LockTry(p) ==
    /\ Runs(p) /\ task[p] \in {"out", "retry"}
    /\ mutex' = try_lock(mutex, current)
    /\ task' = [task EXCEPT ![p] = IF mutex.locked THEN "push" ELSE "in"]
    /\ UNCHANGED <<schedvars, notmutex>>

\* Mutex::lock: the current pid is added to the waiters
LockPush(p) ==
    /\ Runs(p) /\ task[p] = "push"
    /\ mutex' = push_waiter(mutex, current)
    /\ task' = [task EXCEPT ![p] = "yield"]
    /\ UNCHANGED <<schedvars, notmutex>>

\* Mutex::lock: yield_now, then the loop starts over
LockYield(p, outcome) ==
    /\ Runs(p) /\ task[p] = "yield"
    /\ \E k \in {Schedule(SchedState, outcome)} : SetSched(k)
    /\ task' = [task EXCEPT ![p] = "retry"]
    /\ UNCHANGED <<enabled, tick_count, next_pid, entered, mutex, notmutex>>

\* the guard is dropped
Unlock(p) ==
    /\ Runs(p) /\ task[p] = "in"
    /\ mutex' = unlock(mutex)
    /\ task' = [task EXCEPT ![p] = "exit"]
    /\ UNCHANGED <<schedvars, notmutex>>

\* the task ends in proc::exit
TaskExit(p, status, outcome) ==
    /\ Runs(p) /\ task[p] = "exit"
    /\ \E k \in {Schedule(MarkZombie(SchedState, status), outcome)} : SetSched(k)
    /\ task' = [task EXCEPT ![p] = "gone"]
    /\ UNCHANGED <<enabled, tick_count, next_pid, entered, mutex, notmutex>>

\* the next step of the task that is current
TaskStep ==
    \E p \in Pids :
        \/ LockTry(p)
        \/ LockPush(p)
        \/ \E outcome \in SwitchOutcomes : LockYield(p, outcome)
        \/ Unlock(p)
        \/ \E status \in ExitStatuses, outcome \in SwitchOutcomes : TaskExit(p, status, outcome)

MutexNext ==
    \/ Start
    \/ \E priority \in SpawnPriorities : Spawn(priority)
    \/ \E outcome \in SwitchOutcomes : TimerTick(outcome)
    \/ TaskStep

(***************************************************************************)
(* Interrupt handlers and the spin locks they share with the interrupted   *)
(* thread: each path is the sequence of lock() calls and guard drops of    *)
(* the function                                                            *)
(***************************************************************************)
SpinLocks == {"SCHEDULER", "PROCESSES", "EXTENDED_KEY", "MODIFIERS", "KEYBOARD_BUFFER", "MOUSE"}

Lock(l) == [op |-> "lock", on |-> l]
Drop(l) == [op |-> "drop", on |-> l]

\* `X.lock()` whose guard is dropped before any other lock is taken
Guarded(l) == <<Lock(l), Drop(l)>>

\* schedule() with the scheduler enabled, an old and a new process
schedule_path ==
    <<Lock("SCHEDULER")>> \o Guarded("PROCESSES") \o Guarded("PROCESSES")
        \o <<Drop("SCHEDULER")>> \o Guarded("PROCESSES")

\* timer_tick with the scheduler enabled and a current process
timer_tick_path(due) ==
    <<Lock("SCHEDULER")>> \o Guarded("PROCESSES") \o <<Drop("SCHEDULER")>>
        \o (IF due THEN schedule_path ELSE <<>>)

\* keyboard::handle_interrupt, process_scancode
keyboard_path(prefix) ==
    IF prefix THEN Guarded("EXTENDED_KEY")
    ELSE Guarded("EXTENDED_KEY") \o Guarded("MODIFIERS") \o Guarded("MODIFIERS")
             \o Guarded("KEYBOARD_BUFFER")

\* the calls of the thread: yield_now, keyboard::read_key, mouse::get_position
ThreadPaths == {schedule_path, Guarded("KEYBOARD_BUFFER"), Guarded("MOUSE")}

\* the handlers of IRQ 0, 1 and 12
HandlerPaths ==
    {timer_tick_path(due) : due \in BOOLEAN} \cup {keyboard_path(prefix) : prefix \in BOOLEAN}
        \cup {Guarded("MOUSE")}

IrqInit ==
    /\ spin = [l \in SpinLocks |-> "free"]
    /\ task_path = <<>>
    /\ in_irq = FALSE
    /\ irq_path = <<>>

\* spin::Mutex::lock returns once the lock is free; a guard is dropped
Executes(who, path) ==
    /\ path # <<>>
    /\ Head(path).op = "lock" => spin[Head(path).on] = "free"
    /\ spin' = [spin EXCEPT ![Head(path).on] = IF Head(path).op = "lock" THEN who ELSE "free"]

\* the thread enters a call
ThreadCall(path) ==
    /\ ~in_irq /\ task_path = <<>>
    /\ task_path' = path
    /\ UNCHANGED <<spin, in_irq, irq_path, notirq>>

ThreadStep ==
    /\ ~in_irq /\ Executes("thread", task_path)
    /\ task_path' = Tail(task_path)
    /\ UNCHANGED <<in_irq, irq_path, notirq>>

\* an interrupt arrives: interrupts are enabled throughout the thread's calls
Interrupt(path) ==
    /\ ~in_irq
    /\ in_irq' = TRUE
    /\ irq_path' = path
    /\ UNCHANGED <<spin, task_path, notirq>>

HandlerStep ==
    /\ in_irq /\ Executes("handler", irq_path)
    /\ irq_path' = Tail(irq_path)
    /\ UNCHANGED <<in_irq, task_path, notirq>>

\* the handler returns to the interrupted thread
HandlerReturn ==
    /\ in_irq /\ irq_path = <<>>
    /\ in_irq' = FALSE
    /\ UNCHANGED <<spin, task_path, irq_path, notirq>>

IrqNext ==
    \/ \E path \in ThreadPaths : ThreadCall(path)
    \/ ThreadStep
    \/ \E path \in HandlerPaths : Interrupt(path)
    \/ HandlerStep
    \/ HandlerReturn

(***************************************************************************)
(* The locks of CottonFS under concurrent calls: each path is the sequence *)
(* of guards the function takes and drops                                  *)
(***************************************************************************)
FsLocks == {"inode_bitmap", "data_bitmap", "superblock", "inode_cache", "disk_inode"}

Threads == {1, 2}

ReadLock(l) == [op |-> "read", on |-> l]
WriteLock(l) == [op |-> "write", on |-> l]

\* alloc_inode, alloc_block, free_block: the bitmap, then the superblock;
\* both dropped, then sync of the bitmap and of the superblock
alloc_path(bitmap) ==
    <<Lock(bitmap), Lock("superblock"), Drop(bitmap), Drop("superblock")>>
        \o Guarded(bitmap) \o Guarded("superblock")

\* free_inode: the cache is written while bitmap and superblock are held
free_inode_path ==
    <<Lock("inode_bitmap"), Lock("superblock"), WriteLock("inode_cache"), Drop("inode_cache"),
      Drop("inode_bitmap"), Drop("superblock")>>
        \o Guarded("inode_bitmap") \o Guarded("superblock")

\* save_dir_entries, save_file_data: blocks are allocated under the inode's
\* write guard, then the inode is read for write_disk_inode
save_path(allocates) ==
    <<WriteLock("disk_inode")>> \o (IF allocates THEN alloc_path("data_bitmap") ELSE <<>>)
        \o <<Drop("disk_inode"), ReadLock("disk_inode"), Drop("disk_inode")>>

\* load_inode_internal of an inode that is not cached
load_inode_path ==
    <<ReadLock("inode_cache"), Drop("inode_cache"), WriteLock("inode_cache"), Drop("inode_cache")>>

\* create, mkdir
create_path(allocates) == alloc_path("inode_bitmap") \o save_path(allocates) \o load_inode_path

\* unlink
unlink_path == save_path(FALSE) \o free_inode_path

\* FileSystem::sync: the cache's read guard lives to the end of the function
sync_path(dirty) ==
    <<ReadLock("inode_cache")>> \o (IF dirty THEN save_path(TRUE) ELSE <<>>)
        \o Guarded("superblock") \o Guarded("inode_bitmap") \o Guarded("data_bitmap")
        \o <<Drop("inode_cache")>>

\* create, mkdir, unlink, write, truncate, sync
FsPaths ==
    {create_path(allocates) : allocates \in BOOLEAN} \cup {unlink_path}
        \cup {save_path(allocates) : allocates \in BOOLEAN}
        \cup {sync_path(dirty) : dirty \in BOOLEAN}

LocksInit ==
    /\ fs_locks = [l \in FsLocks |-> {}]
    /\ fs_path = [t \in Threads |-> <<>>]

\* spin::Mutex::lock and RwLock::write need the lock free, RwLock::read
\* needs it free of a writer
CanTake(step) ==
    IF step.op = "read" THEN \A guard \in fs_locks[step.on] : guard[2] = "read"
    ELSE fs_locks[step.on] = {}

\* thread t is at a lock it cannot take
Blocked(t) ==
    /\ fs_path[t] # <<>>
    /\ Head(fs_path[t]).op # "drop"
    /\ ~CanTake(Head(fs_path[t]))

FsThreadCall(t, path) ==
    /\ fs_path[t] = <<>>
    /\ fs_path' = [fs_path EXCEPT ![t] = path]
    /\ UNCHANGED <<fs_locks, notlocks>>

FsThreadStep(t) ==
    /\ fs_path[t] # <<>> /\ ~Blocked(t)
    /\ fs_locks' = [fs_locks EXCEPT ![Head(fs_path[t]).on] =
                        IF Head(fs_path[t]).op = "drop"
                        THEN {guard \in @ : guard[1] # t}
                        ELSE @ \cup {<<t, IF Head(fs_path[t]).op = "read" THEN "read" ELSE "write">>}]
    /\ fs_path' = [fs_path EXCEPT ![t] = Tail(@)]
    /\ UNCHANGED notlocks

LocksNext ==
    \/ \E t \in Threads, path \in FsPaths : FsThreadCall(t, path)
    \/ \E t \in Threads : FsThreadStep(t)

(***************************************************************************)
(* mm::physical: the bitmap frame allocator, on a machine of MaxPages page *)
(* frames                                                                  *)
(***************************************************************************)
PAGE_SIZE == 4096

\* MAX_PAGES of the machine
MaxPages == 9

\* the boot information: low memory, the kernel image, and one available
\* region from 0 to AvailableEnd
LowPages == 1
KernelStart == 1
KernelEnd == 5
AvailableEnd == 8

FrameAllocator_new == [ bitmap |-> 0..(MaxPages - 1), first_free |-> 0, total_pages |-> 0, free_pages |-> 0 ]

mark_allocated(a, page) ==
    IF page >= MaxPages \/ page \in a.bitmap THEN a
    ELSE [a EXCEPT !.bitmap = @ \cup {page}, !.free_pages = IF @ > 0 THEN @ - 1 ELSE @]

mark_free(a, page) ==
    IF page >= MaxPages \/ page \notin a.bitmap THEN a
    ELSE [a EXCEPT !.bitmap = @ \ {page}, !.free_pages = @ + 1,
                   !.total_pages = Max(@, page + 1)]

is_allocated(a, page) == page >= MaxPages \/ page \in a.bitmap

\* `for page in from..to { mark_free(page) }`, `{ mark_allocated(page) }`
RECURSIVE MarkRange(_, _, _, _)
MarkRange(a, from, to, free) ==
    IF from >= to THEN a
    ELSE MarkRange(IF free THEN mark_free(a, from) ELSE mark_allocated(a, from), from + 1, to, free)

FirstFreePage(a) ==
    IF \E page \in 0..(MaxPages - 1) : ~is_allocated(a, page)
    THEN Only({page \in 0..(MaxPages - 1) :
                  /\ ~is_allocated(a, page)
                  /\ \A q \in 0..(page - 1) : is_allocated(a, q)})
    ELSE 0

\* FrameAllocator::init
FrameAllocator_init ==
    Only({ [reserved EXCEPT !.first_free = FirstFreePage(reserved)] :
             reserved \in { MarkRange(MarkRange(available, 0, LowPages, FALSE),
                                      KernelStart, KernelEnd, FALSE) :
                 available \in {MarkRange(FrameAllocator_new, 0, AvailableEnd, TRUE)} } })

\* the pages the search of alloc visits, in order
SearchOrder(a) ==
    [i \in 1..MaxPages |->
        IF a.first_free + i - 1 < MaxPages THEN a.first_free + i - 1
        ELSE a.first_free + i - 1 - MaxPages]

FreeInOrder(a) == {i \in 1..MaxPages : ~is_allocated(a, SearchOrder(a)[i])}

\* FrameAllocator::alloc
TakePage(a, page) == Ok([mark_allocated(a, page) EXCEPT !.first_free = page + 1], <<page * PAGE_SIZE>>)

alloc(a) ==
    IF FreeInOrder(a) = {} THEN Ok(a, <<>>)
    ELSE TakePage(a, SearchOrder(a)[Only({i \in FreeInOrder(a) : \A j \in FreeInOrder(a) : i <= j})])

\* the starts of runs of count free pages at or after first_free
RunStarts(a, count) ==
    {start \in a.first_free..(MaxPages - count) :
        \A page \in start..(start + count - 1) : ~is_allocated(a, page)}

\* FrameAllocator::alloc_contiguous
alloc_contiguous(a, count) ==
    IF count = 0 THEN Ok(a, <<>>)
    ELSE IF count = 1 THEN alloc(a)
    ELSE IF RunStarts(a, count) = {} THEN Ok(a, <<>>)
    ELSE Only({ Ok(MarkRange(a, start, start + count, FALSE), <<start * PAGE_SIZE>>) :
                  start \in {s \in RunStarts(a, count) : \A r \in RunStarts(a, count) : s <= r} })

\* FrameAllocator::free
free(a, addr) ==
    IF addr \div PAGE_SIZE < MaxPages /\ is_allocated(a, addr \div PAGE_SIZE)
    THEN [mark_free(a, addr \div PAGE_SIZE) EXCEPT !.first_free = Min(@, addr \div PAGE_SIZE)]
    ELSE a

\* FrameAllocator::free_contiguous
free_contiguous(a, addr, count) ==
    [MarkRange(a, addr \div PAGE_SIZE, Min(addr \div PAGE_SIZE + count, MaxPages), TRUE)
        EXCEPT !.first_free = Min(@, addr \div PAGE_SIZE)]

\* the pages init left marked: low memory, the kernel, what is not memory
Reserved == FrameAllocator_init.bitmap

(***************************************************************************)
(* arch::x86_64::paging: the kernel page tables.  A table is kept at the   *)
(* sampled indices; a virtual address is the record of its indices.        *)
(***************************************************************************)
HUGE_2M == 2097152

Indices == {0, 1, 4, 7, 511}

\* the statics KERNEL_PML4, KERNEL_PDPT, KERNEL_PD[0], KERNEL_PD[1], in the
\* kernel image
KERNEL_PML4 == 1 * PAGE_SIZE
KERNEL_PDPT == 2 * PAGE_SIZE
KERNEL_PD(i) == (3 + i) * PAGE_SIZE

PageTableEntry_new(addr, flags) == [ addr |-> addr, flags |-> flags ]
PageTableEntry_empty == PageTableEntry_new(0, {})
is_present(entry) == "PRESENT" \in entry.flags
is_huge(entry) == "HUGE_PAGE" \in entry.flags

PageTable_empty == [i \in Indices |-> PageTableEntry_empty]

\* what a frame that was never written as a page table may hold
JunkTables ==
    {PageTable_empty, [i \in Indices |-> PageTableEntry_new(0, {"PRESENT", "WRITABLE"})]}

\* paging::init: PML4[0] and PML4[511] name the PDPT, PDPT[i] names PD[i],
\* every PD entry is a 2 MiB page of the identity mapping
paging_init ==
    (KERNEL_PML4 :> [i \in Indices |->
                        IF i \in {0, 511}
                        THEN PageTableEntry_new(KERNEL_PDPT, {"PRESENT", "WRITABLE"})
                        ELSE PageTableEntry_empty])
    @@ (KERNEL_PDPT :> [i \in Indices |->
                        IF i < 2 THEN PageTableEntry_new(KERNEL_PD(i), {"PRESENT", "WRITABLE"})
                        ELSE PageTableEntry_empty])
    @@ [addr \in {KERNEL_PD(0), KERNEL_PD(1)} |->
           [j \in Indices |->
               PageTableEntry_new((((addr - KERNEL_PD(0)) \div PAGE_SIZE) * 512 + j) * HUGE_2M,
                                  {"PRESENT", "WRITABLE", "HUGE_PAGE"})]]

\* the table at a physical address
TableAt(m, addr, junk) == IF addr \in DOMAIN m.mem THEN m.mem[addr] ELSE junk

SetEntry(m, addr, index, entry, junk) ==
    [m EXCEPT !.mem = (addr :> [TableAt(m, addr, junk) EXCEPT ![index] = entry]) @@ @]

\* `*entry = PageTableEntry::new(frame, PRESENT | WRITABLE)`, write_bytes
InstallTable(m, addr, index, frame, junk) ==
    Only({ [linked EXCEPT !.mem = (frame :> PageTable_empty) @@ @] :
             linked \in {SetEntry(m, addr, index,
                                  PageTableEntry_new(frame, {"PRESENT", "WRITABLE"}), junk)} })

\* map_page, one level: the entry's table, allocated when not present
AllocTable(m, addr, index, r, junk) ==
    IF r.v = <<>> THEN Err(m)
    ELSE Ok(InstallTable([m EXCEPT !.a = r.st, !.handed = @ \cup {r.v[1] \div PAGE_SIZE}],
                         addr, index, r.v[1], junk),
            r.v[1])

GetOrCreate(m, addr, index, junk) ==
    IF is_present(TableAt(m, addr, junk)[index])
    THEN Ok(m, TableAt(m, addr, junk)[index].addr)
    ELSE Only({ AllocTable(m, addr, index, r, junk) : r \in {alloc(m.a)} })

MapInPd(pd, v, phys, flags, junk) ==
    IF ~pd.ok THEN pd
    ELSE Only({ IF pt.ok THEN Ok(SetEntry(pt.st, pt.v, v.pt, PageTableEntry_new(phys, flags), junk), <<>>)
                ELSE pt :
                  pt \in {GetOrCreate(pd.st, pd.v, v.pd, junk)} })

MapInPdpt(pdpt, v, phys, flags, junk) ==
    IF ~pdpt.ok THEN pdpt
    ELSE Only({ MapInPd(pd, v, phys, flags, junk) : pd \in {GetOrCreate(pdpt.st, pdpt.v, v.pdpt, junk)} })

\* map_page
map_page(m, v, phys, flags, junk) ==
    Only({ MapInPdpt(pdpt, v, phys, flags, junk) :
             pdpt \in {GetOrCreate(m, KERNEL_PML4, v.pml4, junk)} })

\* the entries unmap_page and translate walk through
Pml4Entry(m, v, junk) == TableAt(m, KERNEL_PML4, junk)[v.pml4]
PdptEntry(m, v, junk) == TableAt(m, Pml4Entry(m, v, junk).addr, junk)[v.pdpt]
PdEntry(m, v, junk) == TableAt(m, PdptEntry(m, v, junk).addr, junk)[v.pd]
PtEntry(m, v, junk) == TableAt(m, PdEntry(m, v, junk).addr, junk)[v.pt]

\* unmap_page
unmap_page(m, v, junk) ==
    IF ~is_present(Pml4Entry(m, v, junk)) THEN Err(m)
    ELSE IF ~is_present(PdptEntry(m, v, junk)) THEN Err(m)
    ELSE IF ~is_present(PdEntry(m, v, junk)) THEN Err(m)
    ELSE IF ~is_present(PtEntry(m, v, junk)) THEN Err(m)
    ELSE Ok(SetEntry(m, PdEntry(m, v, junk).addr, v.pt, PageTableEntry_empty, junk),
            PtEntry(m, v, junk).addr)

\* translate: Some(phys) as <<phys>>, None as <<>>
translate(m, v, junk) ==
    IF ~is_present(Pml4Entry(m, v, junk)) THEN <<>>
    ELSE IF ~is_present(PdptEntry(m, v, junk)) THEN <<>>
    ELSE IF is_huge(PdptEntry(m, v, junk))
    THEN <<PdptEntry(m, v, junk).addr + v.pd * HUGE_2M + v.pt * PAGE_SIZE + v.offset>>
    ELSE IF ~is_present(PdEntry(m, v, junk)) THEN <<>>
    ELSE IF is_huge(PdEntry(m, v, junk))
    THEN <<PdEntry(m, v, junk).addr + v.pt * PAGE_SIZE + v.offset>>
    ELSE IF ~is_present(PtEntry(m, v, junk)) THEN <<>>
    ELSE <<PtEntry(m, v, junk).addr + v.offset>>

(***************************************************************************)
(* The memory calls: alloc_frame, alloc_frames, free_frame, free_frames,   *)
(* map_page, unmap_page                                                    *)
(***************************************************************************)
MaxMemCalls == 5

\* an address inside the first 2 MiB page of the identity mapping, one
\* beyond the 4 GiB of the PDPT, one in an empty PML4 slot
VirtAddrs ==
    { [pml4 |-> 0, pdpt |-> 0, pd |-> 0, pt |-> 1, offset |-> 8],
      [pml4 |-> 0, pdpt |-> 4, pd |-> 0, pt |-> 1, offset |-> 8],
      [pml4 |-> 1, pdpt |-> 0, pd |-> 0, pt |-> 0, offset |-> 8] }

\* frame-aligned physical addresses
PhysAddrs == {7 * PAGE_SIZE}

MapFlags == {{"PRESENT", "WRITABLE"}}

\* the addresses handed to free: a page of low memory and the pages that
\* init left free
FrameAddrs == {page * PAGE_SIZE : page \in {0} \cup ((0..(MaxPages - 1)) \ Reserved)}

FrameCounts == {2}

MemState == [ a |-> allocator, handed |-> handed, mem |-> memory ]

SetMem(m) ==
    /\ allocator' = m.a
    /\ handed' = m.handed
    /\ memory' = m.mem

NoMemCall == [ op |-> "", v |-> <<>>, phys |-> 0, ok |-> FALSE, resolved |-> FALSE, before |-> <<>> ]
NoRetry == [ stage |-> 0, v |-> <<>>, phys |-> 0, ok |-> FALSE ]

MemInit ==
    /\ allocator = FrameAllocator_init
    /\ handed = {}
    /\ memory = paging_init
    /\ ram \in JunkTables
    /\ mem_last = NoMemCall
    /\ retry = NoRetry
    /\ mem_calls = 0

MemCall ==
    /\ mem_calls < MaxMemCalls
    /\ mem_calls' = mem_calls + 1
    /\ UNCHANGED <<ram, notmem>>

\* the pages a call handed out
Taken(r, count) ==
    IF r.v = <<>> THEN {} ELSE (r.v[1] \div PAGE_SIZE)..(r.v[1] \div PAGE_SIZE + count - 1)

\* physical::alloc_frame
AllocFrame ==
    /\ MemCall
    /\ \E r \in {alloc(allocator)} :
          /\ allocator' = r.st
          /\ handed' = handed \cup Taken(r, 1)
    /\ mem_last' = NoMemCall /\ retry' = NoRetry
    /\ UNCHANGED memory

\* physical::alloc_frames
AllocFrames(count) ==
    /\ MemCall
    /\ \E r \in {alloc_contiguous(allocator, count)} :
          /\ allocator' = r.st
          /\ handed' = handed \cup Taken(r, count)
    /\ mem_last' = NoMemCall /\ retry' = NoRetry
    /\ UNCHANGED memory

\* physical::free_frame
FreeFrame(addr) ==
    /\ MemCall
    /\ allocator' = free(allocator, addr)
    /\ handed' = handed \ {addr \div PAGE_SIZE}
    /\ mem_last' = NoMemCall
    /\ retry' = IF retry.stage = 1 /\ addr \div PAGE_SIZE \in handed /\ addr \notin DOMAIN memory
                   /\ allocator'.free_pages = allocator.free_pages + 1
                THEN [retry EXCEPT !.stage = 2]
                ELSE NoRetry
    /\ UNCHANGED memory

\* physical::free_frames
FreeFrames(addr, count) ==
    /\ MemCall
    /\ allocator' = free_contiguous(allocator, addr, count)
    /\ handed' = handed \ ((addr \div PAGE_SIZE)..(addr \div PAGE_SIZE + count - 1))
    /\ mem_last' = NoMemCall /\ retry' = NoRetry
    /\ UNCHANGED memory

\* paging::map_page
MapPage(v, phys, flags) ==
    /\ MemCall
    /\ \E r \in {map_page(MemState, v, phys, flags, ram)} :
          /\ SetMem(r.st)
          /\ mem_last' = [ op |-> "map_page", v |-> v, phys |-> phys, ok |-> r.ok,
                           resolved |-> translate(MemState, v, ram) # <<>>, before |-> memory ]
          /\ retry' = IF retry.stage = 2 /\ retry.v = v /\ retry.phys = phys
                      THEN [retry EXCEPT !.stage = 3, !.ok = r.ok]
                      ELSE IF ~r.ok /\ FreeInOrder(allocator) = {}
                      THEN [ stage |-> 1, v |-> v, phys |-> phys, ok |-> FALSE ]
                      ELSE NoRetry

\* paging::unmap_page
UnmapPage(v) ==
    /\ MemCall
    /\ \E r \in {unmap_page(MemState, v, ram)} :
          /\ SetMem(r.st)
          /\ mem_last' = [ op |-> "unmap_page", v |-> v, phys |-> 0, ok |-> r.ok,
                           resolved |-> translate(MemState, v, ram) # <<>>, before |-> memory ]
    /\ retry' = NoRetry

MemNext ==
    \/ AllocFrame
    \/ \E count \in FrameCounts : AllocFrames(count)
    \/ \E addr \in FrameAddrs : FreeFrame(addr)
    \/ \E addr \in FrameAddrs, count \in FrameCounts : FreeFrames(addr, count)
    \/ \E v \in VirtAddrs, phys \in PhysAddrs, flags \in MapFlags : MapPage(v, phys, flags)
    \/ \E v \in VirtAddrs : UnmapPage(v)

(***************************************************************************)
(* System calls: the int 0x80 gate of arch::x86_64::idt, the SYSCALL entry *)
(* of syscall, and syscall::handle                                         *)
(***************************************************************************)
SYS_GETPID == 4
SYS_CLOSE == 11
ESRCH == 0 - 3
ENOSYS == 0 - 38

\* the `push` instructions of syscall_handler, first to last
PushOrder ==
    << "rax", "rbx", "rcx", "rdx", "rsi", "rdi", "rbp", "r8",
       "r9", "r10", "r11", "r12", "r13", "r14", "r15" >>

Registers == {PushOrder[i] : i \in 1..Len(PushOrder)}

\* the words at rsp after the pushes: index 0 is the register pushed last
Frame(r) == [i \in 0..(Len(PushOrder) - 1) |-> r[PushOrder[Len(PushOrder) - i]]]

\* syscall_handler_inner: the call it makes to syscall::handle
Extract(frame) ==
    [ num |-> frame[14], arg1 |-> frame[9], arg2 |-> frame[8], arg3 |-> frame[7],
      arg4 |-> frame[6], arg5 |-> frame[5] ]

\* syscall::handle, for sys_getpid, sys_close and an unknown number
handle(call) ==
    IF call.num = SYS_GETPID THEN (IF current # <<>> /\ current[1] \in DOMAIN processes
                                  THEN current[1] ELSE ESRCH)
    ELSE IF call.num = SYS_CLOSE THEN 0
    ELSE ENOSYS

\* the `pop` instructions of syscall_handler: every register gets back the
\* word pushed for it
Popped(frame) == [name \in Registers |->
                    frame[Len(PushOrder) - Only({i \in 1..Len(PushOrder) : PushOrder[i] = name})]]

SyscallNumbers == {SYS_GETPID, SYS_CLOSE, 99}
ArgValues == {1, 2}
ArgRegisters == {"rdi", "rsi", "rdx", "r10", "r8", "rbp"}

\* the register contents user code enters the kernel with
EntryRegisters ==
    { [name \in Registers |->
          IF name = "rax" THEN num ELSE IF name \in ArgRegisters THEN args[name] ELSE 0] :
        num \in SyscallNumbers, args \in [ArgRegisters -> ArgValues] }

NoSyscall == [ op |-> "", at |-> <<>>, call |-> <<>>, result |-> 0 ]

SysInit ==
    /\ regs = [name \in Registers |-> 0]
    /\ sys_pc = "user"
    /\ sys_last = NoSyscall

\* `int 0x80`: syscall_handler pushes, calls syscall_handler_inner, pops, iretq
Int80(r) ==
    /\ sys_pc = "user"
    /\ \E call \in {Extract(Frame(r))} :
          sys_last' = [ op |-> "int80", at |-> r, call |-> call, result |-> handle(call) ]
    /\ regs' = Popped(Frame(r))
    /\ UNCHANGED <<sys_pc, notsys>>

\* where the `ret` of the empty syscall_entry_x86_64 leads: the word on top
\* of the user stack is the address after the SYSCALL, or it is not
SyscallOutcomes == {"user", "astray"}

\* `syscall`: control enters syscall_entry_x86_64, which calls no handler
SyscallInsn(r, outcome) ==
    /\ sys_pc = "user"
    /\ sys_last' = [ op |-> "syscall", at |-> r, call |-> <<>>, result |-> 0 ]
    /\ regs' = r
    /\ sys_pc' = outcome
    /\ UNCHANGED notsys

SysNext ==
    \/ \E r \in EntryRegisters : Int80(r)
    \/ \E r \in EntryRegisters, outcome \in SyscallOutcomes : SyscallInsn(r, outcome)

(***************************************************************************)
(* sync::RwLock, one step per atomic operation of read(), write() and the  *)
(* guards' drops                                                           *)
(***************************************************************************)
MaxRwTasks == 3

RwTasks == 1..MaxRwTasks

RwLock_new == [ readers |-> 0, writer |-> FALSE ]

RwInit ==
    /\ rwlock = RwLock_new
    /\ rw_task = [t \in RwTasks |-> "out"]

RwStep(t, from, to) ==
    /\ rw_task[t] = from
    /\ rw_task' = [rw_task EXCEPT ![t] = to]
    /\ UNCHANGED notrw

\* a task calls read()
ReadCall(t) == RwStep(t, "out", "read_wait") /\ UNCHANGED rwlock

\* `while self.writer.load() { yield_now() }`
ReadWait(t) ==
    /\ RwStep(t, "read_wait", IF rwlock.writer THEN "read_wait" ELSE "read_add")
    /\ UNCHANGED rwlock

\* `self.readers.fetch_add(1)`
ReadAdd(t) ==
    /\ RwStep(t, "read_add", "read_check")
    /\ rwlock' = [rwlock EXCEPT !.readers = @ + 1]

\* "Check if writer snuck in": roll back, or return the guard
AfterAdd_unchecked(writer) == "reading"
AfterAdd(writer) == IF writer THEN "read_undo" ELSE "reading"

\* `if self.writer.load() { .. continue }`, else the guard is returned
ReadCheck(t) ==
    /\ RwStep(t, "read_check", AfterAdd(rwlock.writer))
    /\ UNCHANGED rwlock

\* `self.readers.fetch_sub(1); continue`
ReadUndo(t) ==
    /\ RwStep(t, "read_undo", "read_wait")
    /\ rwlock' = [rwlock EXCEPT !.readers = @ - 1]

\* RwLockReadGuard::drop
ReadDrop(t) ==
    /\ RwStep(t, "reading", "out")
    /\ rwlock' = [rwlock EXCEPT !.readers = @ - 1]

\* a task calls write()
WriteCall(t) == RwStep(t, "out", "write_cas") /\ UNCHANGED rwlock

\* `self.writer.compare_exchange(false, true)`, else yield_now and again
WriteCas(t) ==
    /\ RwStep(t, "write_cas", IF rwlock.writer THEN "write_cas" ELSE "write_drain")
    /\ rwlock' = [rwlock EXCEPT !.writer = TRUE]

\* `while self.readers.load() > 0 { yield_now() }`, then the guard is returned
WriteDrain(t) ==
    /\ RwStep(t, "write_drain", IF rwlock.readers > 0 THEN "write_drain" ELSE "writing")
    /\ UNCHANGED rwlock

\* RwLockWriteGuard::drop
WriteDrop(t) ==
    /\ RwStep(t, "writing", "out")
    /\ rwlock' = [rwlock EXCEPT !.writer = FALSE]

RwNext ==
    \E t \in RwTasks :
        \/ ReadCall(t) \/ ReadWait(t) \/ ReadAdd(t) \/ ReadCheck(t) \/ ReadUndo(t) \/ ReadDrop(t)
        \/ WriteCall(t) \/ WriteCas(t) \/ WriteDrain(t) \/ WriteDrop(t)

(***************************************************************************)
(* sync::RecursiveMutex, one step per atomic operation of lock() and of    *)
(* unlock()                                                                *)
(***************************************************************************)
MaxDepth == 2

\* a task is named by what current_pid() gives while it runs; 0 names the
\* task that runs while the scheduler has no current process
RmTasks == {0} \cup (FirstFreePid..MaxPid)

RecursiveMutex_new == [ locked |-> FALSE, owner |-> 0, count |-> 0 ]

RmInit ==
    /\ rmutex = RecursiveMutex_new
    /\ rm_task = [t \in RmTasks |-> [ pc |-> "out", guards |-> 0 ]]

RmStep(t, from, to, returned) ==
    /\ rm_task[t].pc = from
    /\ rm_task' = [rm_task EXCEPT ![t] = [ pc |-> to, guards |-> @.guards + returned ]]
    /\ UNCHANGED notrm

\* lock() is called: `current_pid().map(..).unwrap_or(0)`
RmLockCall(t) ==
    /\ rm_task[t].guards < MaxDepth
    /\ RmStep(t, "out", "load_locked", 0)
    /\ UNCHANGED rmutex

\* `if self.locked.load()`
RmLoadLocked(t) ==
    /\ RmStep(t, "load_locked", IF rmutex.locked THEN "load_owner" ELSE "cas", 0)
    /\ UNCHANGED rmutex

\* `if self.owner.load() == current_pid`
RmLoadOwner(t) ==
    /\ RmStep(t, "load_owner", IF rmutex.owner = t THEN "add" ELSE "cas", 0)
    /\ UNCHANGED rmutex

\* `self.count.fetch_add(1); return guard`
RmAdd(t) ==
    /\ RmStep(t, "add", "out", 1)
    /\ rmutex' = [rmutex EXCEPT !.count = @ + 1]

\* `self.locked.compare_exchange(false, true)`, else yield_now and again
RmCas(t) ==
    /\ RmStep(t, "cas", IF rmutex.locked THEN "load_locked" ELSE "store_owner", 0)
    /\ rmutex' = [rmutex EXCEPT !.locked = TRUE]

\* `self.owner.store(current_pid)`
RmStoreOwner(t) ==
    /\ RmStep(t, "store_owner", "store_count", 0)
    /\ rmutex' = [rmutex EXCEPT !.owner = t]

\* `self.count.store(1); return guard`
RmStoreCount(t) ==
    /\ RmStep(t, "store_count", "out", 1)
    /\ rmutex' = [rmutex EXCEPT !.count = 1]

\* RecursiveMutexGuard::drop, unlock: `self.count.fetch_sub(1)`; the u32
\* below 0 is u32::MAX, written -1
RmSub(t) ==
    /\ rm_task[t].guards > 0
    /\ RmStep(t, "out", IF rmutex.count = 1 THEN "clear_owner" ELSE "out", 0 - 1)
    /\ rmutex' = [rmutex EXCEPT !.count = @ - 1]

\* `self.owner.store(0)`
RmClearOwner(t) ==
    /\ RmStep(t, "clear_owner", "clear_locked", 0)
    /\ rmutex' = [rmutex EXCEPT !.owner = 0]

\* `self.locked.store(false)`
RmClearLocked(t) ==
    /\ RmStep(t, "clear_locked", "out", 0)
    /\ rmutex' = [rmutex EXCEPT !.locked = FALSE]

RmNext ==
    \E t \in RmTasks :
        \/ RmLockCall(t) \/ RmLoadLocked(t) \/ RmLoadOwner(t) \/ RmAdd(t) \/ RmCas(t)
        \/ RmStoreOwner(t) \/ RmStoreCount(t) \/ RmSub(t) \/ RmClearOwner(t) \/ RmClearLocked(t)

(***************************************************************************)
(* sync::CondVar with the sync::Mutex it is used with                      *)
(***************************************************************************)
CvTasks == FirstFreePid..(MaxPid + 1)

CvInit ==
    /\ cv_mutex = Mutex_new
    /\ cv_waiters = <<>>
    /\ cv_notified = {}
    /\ cv_task = [t \in CvTasks |-> "out"]
    /\ cv_panicked = FALSE

CvStep(t, from, to) ==
    /\ ~cv_panicked
    /\ cv_task[t] = from
    /\ cv_task' = [cv_task EXCEPT ![t] = to]
    /\ UNCHANGED notcv

\* Mutex::lock, when try_lock succeeds
CvLock(t) ==
    /\ ~cv_mutex.locked
    /\ CvStep(t, "out", "locked")
    /\ cv_mutex' = try_lock(cv_mutex, <<t>>)
    /\ UNCHANGED <<cv_waiters, cv_notified, cv_panicked>>

\* the guard is dropped without a wait
CvUnlock(t) ==
    /\ CvStep(t, "locked", "out")
    /\ cv_mutex' = unlock(cv_mutex)
    /\ UNCHANGED <<cv_waiters, cv_notified, cv_panicked>>

\* CondVar::wait: `self.waiters.lock().push_back(pid)`
CvWaitPush(t) ==
    /\ CvStep(t, "locked", "wait_drop")
    /\ cv_waiters' = Append(cv_waiters, t)
    /\ cv_notified' = cv_notified \ {t}
    /\ UNCHANGED <<cv_mutex, cv_panicked>>

\* CondVar::wait: `drop(guard)`
CvWaitDrop(t) ==
    /\ CvStep(t, "wait_drop", "wait_yield")
    /\ cv_mutex' = unlock(cv_mutex)
    /\ UNCHANGED <<cv_waiters, cv_notified, cv_panicked>>

\* CondVar::wait: yield_now() returns and `todo!()` panics
CvWaitEnd(t) ==
    /\ CvStep(t, "wait_yield", "todo")
    /\ cv_panicked' = TRUE
    /\ UNCHANGED <<cv_mutex, cv_waiters, cv_notified>>

\* CondVar::notify_one, called by a task that is not in wait
CvNotifyOne(t) ==
    /\ CvStep(t, cv_task[t], cv_task[t])
    /\ cv_task[t] \in {"out", "locked"}
    /\ cv_waiters # <<>>
    /\ cv_waiters' = Tail(cv_waiters)
    /\ cv_notified' = cv_notified \cup {Head(cv_waiters)}
    /\ UNCHANGED <<cv_mutex, cv_panicked>>

\* CondVar::notify_all
CvNotifyAll(t) ==
    /\ CvStep(t, cv_task[t], cv_task[t])
    /\ cv_task[t] \in {"out", "locked"}
    /\ cv_waiters # <<>>
    /\ cv_waiters' = <<>>
    /\ cv_notified' = cv_notified \cup {cv_waiters[i] : i \in 1..Len(cv_waiters)}
    /\ UNCHANGED <<cv_mutex, cv_panicked>>

CvNext ==
    \E t \in CvTasks :
        \/ CvLock(t) \/ CvUnlock(t) \/ CvWaitPush(t) \/ CvWaitDrop(t) \/ CvWaitEnd(t)
        \/ CvNotifyOne(t) \/ CvNotifyAll(t)

(***************************************************************************)
(* sync::Barrier                                                           *)
(***************************************************************************)
BarrierCount == 2
MaxArrivals == 4

BarrierTasks == FirstFreePid..(MaxPid + 1)

Barrier_new(count) == [ count |-> count, current |-> 0, generation |-> 0, waiters |-> <<>> ]

BarrierInit ==
    /\ barrier = Barrier_new(BarrierCount)
    /\ arrivals = 0
    /\ bar_task = [t \in BarrierTasks |-> [ pc |-> "out", gen |-> 0, arrival |-> 0, leader |-> FALSE ]]

BarStep(t, from, next) ==
    /\ bar_task[t].pc \in from
    /\ bar_task' = [bar_task EXCEPT ![t] = next]
    /\ UNCHANGED notbar

\* wait() is called: `let gen = *self.generation.lock()`
BarReadGen(t) ==
    /\ arrivals < MaxArrivals
    /\ BarStep(t, {"out", "returned"},
               [ pc |-> "arrive", gen |-> barrier.generation, arrival |-> 0, leader |-> FALSE ])
    /\ UNCHANGED <<barrier, arrivals>>

\* with `current` locked: `*current += 1`; the last arrival resets current,
\* advances the generation, empties the waiters and returns true
BarArrive(t) ==
    /\ BarStep(t, {"arrive"},
               IF barrier.current + 1 = barrier.count
               THEN [bar_task[t] EXCEPT !.pc = "returned", !.arrival = arrivals + 1, !.leader = TRUE]
               ELSE [bar_task[t] EXCEPT !.pc = "push", !.arrival = arrivals + 1])
    /\ arrivals' = arrivals + 1
    /\ barrier' = IF barrier.current + 1 = barrier.count
                  THEN [barrier EXCEPT !.current = 0, !.generation = @ + 1, !.waiters = <<>>]
                  ELSE [barrier EXCEPT !.current = @ + 1]

\* `self.waiters.lock().push_back(pid)`
BarPush(t) ==
    /\ BarStep(t, {"push"}, [bar_task[t] EXCEPT !.pc = "loop"])
    /\ barrier' = [barrier EXCEPT !.waiters = Append(@, t)]
    /\ UNCHANGED arrivals

\* the loop: `if new_gen != gen { break }`, else yield_now; then false
BarCheckGen(t) ==
    /\ BarStep(t, {"loop"},
               IF barrier.generation # bar_task[t].gen
               THEN [bar_task[t] EXCEPT !.pc = "returned"]
               ELSE bar_task[t])
    /\ UNCHANGED <<barrier, arrivals>>

BarNext ==
    \E t \in BarrierTasks : BarReadGen(t) \/ BarArrive(t) \/ BarPush(t) \/ BarCheckGen(t)

\* the last arrival of the generation an arrival belongs to
GenerationEnd(arrival) == ((arrival + BarrierCount - 1) \div BarrierCount) * BarrierCount

(***************************************************************************)
(* drivers::storage::ata: BlockDevice::read and write, read_sectors,       *)
(* write_sectors and flush, against one drive                              *)
(***************************************************************************)
AtaTasks == {1, 2}

\* sector counts of the requests; the largest is refused
AtaCounts == {0, 1, 2, 256}

\* the drive: the sector count register, and the command in progress with
\* the sectors it still has to transfer
Drive_idle == [ count |-> 0, active |-> <<>> ]

NoRequest == [ pc |-> "out", op |-> "", count |-> 0, todo |-> 0, ok |-> FALSE, commands |-> 0 ]

AtaInit ==
    /\ ata = Drive_idle
    /\ ata_task = [t \in AtaTasks |-> NoRequest]

AtaStep(t, from, next) ==
    /\ ata_task[t].pc \in from
    /\ ata_task' = [ata_task EXCEPT ![t] = next]
    /\ UNCHANGED notata

\* the drive takes a command written to the command register; a sector
\* count register of 0 stands for 256 sectors
Started(drive, op) ==
    [drive EXCEPT !.active = IF op = "flush" THEN <<>>
                             ELSE <<[ op |-> op,
                                      left |-> IF drive.count = 0 THEN 256 ELSE drive.count ]>>]

\* DRQ: the drive has a sector to transfer
Drq(drive) == drive.active # <<>>

\* the drive after one sector went through the data register
Transferred(drive) ==
    IF drive.active[1].left = 1 THEN [drive EXCEPT !.active = <<>>]
    ELSE [drive EXCEPT !.active[1].left = @ - 1]

\* BlockDevice::read, BlockDevice::write: `if count > 255`, then into
\* read_sectors or write_sectors with a buffer of sufficient length
AtaCall(t, op, count) ==
    /\ AtaStep(t, {"out", "done"},
               IF count > 255
               THEN [ pc |-> "done", op |-> op, count |-> count, todo |-> 0, ok |-> FALSE, commands |-> 0 ]
               ELSE [ pc |-> "program", op |-> op, count |-> count, todo |-> count, ok |-> FALSE,
                      commands |-> 0 ])
    /\ UNCHANGED ata

\* the outb to the drive, sector count and LBA registers
AtaProgram(t) ==
    /\ AtaStep(t, {"program"}, [ata_task[t] EXCEPT !.pc = "command"])
    /\ ata' = [ata EXCEPT !.count = ata_task[t].count]

\* `outb(base + 7, ATA_CMD_READ_PIO)` or ATA_CMD_WRITE_PIO
AtaCommand(t) ==
    /\ AtaStep(t, {"command"}, [ata_task[t] EXCEPT !.pc = "sectors", !.commands = @ + 1])
    /\ ata' = Started(ata, ata_task[t].op)

\* one round of `for sector in 0..count`: wait for DRQ, move 256 words
AtaSector(t) ==
    /\ ata_task[t].todo > 0
    /\ AtaStep(t, {"sectors"},
               IF Drq(ata) THEN [ata_task[t] EXCEPT !.todo = @ - 1]
               ELSE [ata_task[t] EXCEPT !.pc = "done", !.ok = FALSE])
    /\ ata' = IF Drq(ata) THEN Transferred(ata) ELSE ata

\* read_sectors: `Ok(())` after the loop
AtaReadEnd(t) ==
    /\ ata_task[t].todo = 0 /\ ata_task[t].op = "read"
    /\ AtaStep(t, {"sectors"}, [ata_task[t] EXCEPT !.pc = "done", !.ok = TRUE])
    /\ UNCHANGED ata

\* write_sectors: `self.flush()?; Ok(())` after the loop
AtaFlush(t) ==
    /\ ata_task[t].todo = 0 /\ ata_task[t].op = "write"
    /\ AtaStep(t, {"sectors"}, [ata_task[t] EXCEPT !.pc = "done", !.ok = TRUE, !.commands = @ + 1])
    /\ ata' = Started(ata, "flush")

AtaNext ==
    \E t \in AtaTasks :
        \/ \E op \in {"read", "write"}, count \in AtaCounts : AtaCall(t, op, count)
        \/ AtaProgram(t) \/ AtaCommand(t) \/ AtaSector(t) \/ AtaReadEnd(t) \/ AtaFlush(t)

(***************************************************************************)
(* fs: the mount table, and the choice of the mount in lookup.  A path is  *)
(* the sequence of its characters.                                         *)
(***************************************************************************)
MaxMounts == 3

MountPaths == { <<"/", "a">>, <<"/", "a", "/", "b">>, <<"/", "b">> }

LookupPaths ==
    MountPaths \cup { <<"/">>, <<"/", "a", "/", "b", "/", "c">>, <<"/", "a", "b">>, <<"/", "c">> }

\* str::starts_with
starts_with(path, prefix) ==
    Len(prefix) <= Len(path) /\ SubSeq(path, 1, Len(prefix)) = prefix

\* `&path[mount.path.len()..]`
Remaining(path, prefix) == SubSeq(path, Len(prefix) + 1, Len(path))

\* the tests of lookup on one mount
MountMatches(mount, path) ==
    /\ starts_with(path, mount.path) /\ path # <<"/">>
    /\ Remaining(path, mount.path) = <<>> \/ Head(Remaining(path, mount.path)) = "/"

\* lookup, up to the call of resolve_path: `for mount in mounts.iter().rev()`,
\* the first mount that matches, or the VFS root
lookup_mount(table, path) ==
    IF path = <<"/">> \/ \A i \in 1..Len(table) : ~MountMatches(table[i], path)
    THEN [ via |-> <<>>, rest |-> Tail(path) ]
    ELSE Only({ [ via |-> <<table[i]>>, rest |-> Remaining(path, table[i].path) ] :
                  i \in {j \in 1..Len(table) :
                            /\ MountMatches(table[j], path)
                            /\ \A k \in (j + 1)..Len(table) : ~MountMatches(table[k], path)} })

\* `mounts.remove(pos)`
RemoveMount(table, pos) == SubSeq(table, 1, pos - 1) \o SubSeq(table, pos + 1, Len(table))

MountsInit ==
    /\ mounts = <<>>
    /\ mount_last = [ op |-> "", path |-> <<>>, via |-> <<>>, rest |-> <<>> ]

\* fs::mount; every mounted filesystem is named by the number of its mount
Mount(path) ==
    /\ Len(mounts) < MaxMounts
    /\ mounts' = Append(mounts, [ path |-> path, fs |-> Len(mounts) + 1 ])
    /\ mount_last' = [ op |-> "mount", path |-> path, via |-> <<>>, rest |-> <<>> ]
    /\ UNCHANGED notmount

\* fs::umount
Umount(path) ==
    /\ mounts' = IF \E i \in 1..Len(mounts) : mounts[i].path = path
                 THEN RemoveMount(mounts, Only({i \in 1..Len(mounts) :
                                                  /\ mounts[i].path = path
                                                  /\ \A j \in 1..(i - 1) : mounts[j].path # path}))
                 ELSE mounts
    /\ mount_last' = [ op |-> "umount", path |-> path, via |-> <<>>, rest |-> <<>> ]
    /\ UNCHANGED notmount

\* fs::lookup
Lookup(path) ==
    /\ \E found \in {lookup_mount(mounts, path)} :
          mount_last' = [ op |-> "lookup", path |-> path, via |-> found.via, rest |-> found.rest ]
    /\ UNCHANGED <<mounts, notmount>>

MountsNext ==
    \/ \E path \in MountPaths : Mount(path) \/ Umount(path)
    \/ \E path \in LookupPaths : Lookup(path)

\* the mounts whose mount point is a prefix of the path
PrefixMounts(path) == {i \in 1..Len(mounts) : MountMatches(mounts[i], path)}

(***************************************************************************)
(* CottonFS called by several tasks: create and mkdir on the root          *)
(* directory.  A task is preempted only where it holds no lock; what the   *)
(* code does under a lock, and one block written to the device, is one     *)
(* step.  The load of the entries and save_dir_entries are one step each.  *)
(***************************************************************************)
MaxCfCalls == 2

CfTasks == {1, 2}
CfNames == {"a", "b"}
CfKinds == {"Regular", "Directory"}

CfIdle ==
    [ pc |-> "idle", name |-> "", kind |-> "", ino |-> 0, bitmap_data |-> {}, sb |-> <<>>,
      buf |-> <<>> ]

CfInit ==
    /\ cfs = CottonFS_new(BlankDevice, 0).st
    /\ cf_task = [t \in CfTasks |-> CfIdle]
    /\ cf_written = [n \in {} |-> ZeroImage]
    /\ cf_calls = 0

\* task t moves from one place to the next
CfStep(t, from, to) ==
    /\ cf_task[t].pc = from
    /\ cf_task' = [cf_task EXCEPT ![t] = to]
    /\ UNCHANGED notcf

\* create (kind = "Regular") or mkdir (kind = "Directory") is called; the
\* root directory is a directory and the name is short
CfCall(t, name, kind) ==
    /\ cf_calls < MaxCfCalls
    /\ cf_calls' = cf_calls + 1
    /\ CfStep(t, "idle", [CfIdle EXCEPT !.pc = "load", !.name = name, !.kind = kind])
    /\ UNCHANGED <<cfs, cf_written>>

\* `if entries.is_none() { let _ = self.load_dir_entries(); }`
CfLoad(t) ==
    /\ CfStep(t, "load", [cf_task[t] EXCEPT !.pc = "check"])
    /\ cfs' = EnsureDirEntries(cfs, ROOT_INODE).st
    /\ UNCHANGED <<cf_written, cf_calls>>

\* the name is looked for under the read guard of dir_entries
CfCheck(t) ==
    /\ CfStep(t, "check",
              IF /\ cfs.cache[ROOT_INODE].dir_entries # <<>>
                 /\ FindEntry(cfs.cache[ROOT_INODE].dir_entries[1], cf_task[t].name, 1) # 0
              THEN CfIdle ELSE [cf_task[t] EXCEPT !.pc = "alloc_inode"])
    /\ UNCHANGED <<cfs, cf_written, cf_calls>>

\* alloc_inode up to `drop(sb)`
CfAllocInode(t) ==
    /\ \E i \in {FirstClear(cfs.ibm, InodeBitmapBytes, 1, MAX_INODES)} :
          IF cfs.sb.free_inodes = 0 \/ i >= MAX_INODES
          THEN CfStep(t, "alloc_inode", CfIdle) /\ UNCHANGED cfs
          ELSE /\ CfStep(t, "alloc_inode", [cf_task[t] EXCEPT !.pc = "bitmap_clone", !.ino = i])
               /\ cfs' = [cfs EXCEPT !.ibm = set_bit(cfs.ibm, InodeBitmapBytes, i),
                                     !.sb.free_inodes = cfs.sb.free_inodes - 1]
    /\ UNCHANGED <<cf_written, cf_calls>>

\* sync_inode_bitmap: `bitmap.clone()` under the lock
CfBitmapClone(t) ==
    /\ CfStep(t, "bitmap_clone", [cf_task[t] EXCEPT !.pc = "bitmap_write", !.bitmap_data = cfs.ibm])
    /\ UNCHANGED <<cfs, cf_written, cf_calls>>

\* sync_inode_bitmap: the clone is written to the device
CfBitmapWrite(t) ==
    /\ CfStep(t, "bitmap_write", [cf_task[t] EXCEPT !.pc = "sb_copy", !.bitmap_data = {}])
    /\ cfs' = [cfs EXCEPT !.dibm = cf_task[t].bitmap_data]
    /\ UNCHANGED <<cf_written, cf_calls>>

\* sync_superblock: the superblock is copied into buf under the lock
CfSuperblockCopy(t) ==
    /\ CfStep(t, "sb_copy", [cf_task[t] EXCEPT !.pc = "sb_write", !.sb = <<cfs.sb>>])
    /\ UNCHANGED <<cfs, cf_written, cf_calls>>

\* sync_superblock: buf is written to the device
CfSuperblockWrite(t) ==
    /\ CfStep(t, "sb_write", [cf_task[t] EXCEPT !.pc = "inode_read", !.sb = <<>>])
    /\ cfs' = [cfs EXCEPT !.dsb = cf_task[t].sb]
    /\ UNCHANGED <<cf_written, cf_calls>>

\* the inodes in the block of the inode table that holds ino
InodesOfBlock(ino) ==
    { n \in 0..(MAX_INODES - 1) : n \div inodes_per_block = ino \div inodes_per_block }

\* the slots of that block which are not zero
BlockOfInode(dino, ino) == [n \in InodesOfBlock(ino) \cap DOMAIN dino |-> dino[n]]

\* the first DISK_INODE_SIZE bytes of the inode create or mkdir builds
CfImage(kind) == InodeImage(IF kind = "Directory" THEN new_dir(0) ELSE new_file(0))

\* write_disk_inode: read_block of the block of the inode table
CfInodeRead(t) ==
    /\ CfStep(t, "inode_read",
              [cf_task[t] EXCEPT !.pc = "inode_write", !.buf = <<BlockOfInode(cfs.dino, cf_task[t].ino)>>])
    /\ UNCHANGED <<cfs, cf_written, cf_calls>>

\* the inode table after write_block of a patched block
PatchedTable(dino, ino, buf, image) ==
    (ino :> image) @@ buf @@ [n \in DOMAIN dino \ InodesOfBlock(ino) |-> dino[n]]

\* write_disk_inode: the slot is patched in buf, write_block of buf
CfInodeWrite(t) ==
    /\ CfStep(t, "inode_write", [cf_task[t] EXCEPT !.pc = "push", !.buf = <<>>])
    /\ cfs' = [cfs EXCEPT !.dino = PatchedTable(cfs.dino, cf_task[t].ino, cf_task[t].buf[1],
                                                CfImage(cf_task[t].kind))]
    /\ cf_written' = (cf_task[t].ino :> CfImage(cf_task[t].kind)) @@ cf_written
    /\ UNCHANGED cf_calls

\* the entry is pushed under the write guard of dir_entries; mark_dirty
CfPush(t) ==
    /\ CfStep(t, "push", [cf_task[t] EXCEPT !.pc = "save"])
    /\ cfs' = PushEntry(cfs, ROOT_INODE,
                        DiskDirEntry_new(cf_task[t].ino, cf_task[t].name, cf_task[t].kind))
    /\ UNCHANGED <<cf_written, cf_calls>>

\* save_dir_entries, then load_inode of the new inode
CfSave(t) ==
    /\ CfStep(t, "save", CfIdle)
    /\ \E sv \in {save_dir_entries(cfs, ROOT_INODE)} :
          cfs' = IF sv.ok THEN load_inode_internal(sv.st, cf_task[t].ino, 0).st ELSE sv.st
    /\ cf_written' = (ROOT_INODE :> SlotAt(cfs', ROOT_INODE)) @@ cf_written
    /\ UNCHANGED cf_calls

CfNext ==
    \/ \E t \in CfTasks, name \in CfNames, kind \in CfKinds : CfCall(t, name, kind)
    \/ \E t \in CfTasks :
          \/ CfLoad(t)
          \/ CfCheck(t)
          \/ CfAllocInode(t)
          \/ CfBitmapClone(t)
          \/ CfBitmapWrite(t)
          \/ CfSuperblockCopy(t)
          \/ CfSuperblockWrite(t)
          \/ CfInodeRead(t)
          \/ CfInodeWrite(t)
          \/ CfPush(t)
          \/ CfSave(t)

\* the entries of the root directory in memory
CfEntries ==
    IF cfs.cache[ROOT_INODE].dir_entries = <<>> THEN <<>>
    ELSE cfs.cache[ROOT_INODE].dir_entries[1]

(***************************************************************************)
(* mm::heap: init, on the machine of MaxPages page frames.  The heap is    *)
(* HeapPages pages at page HeapStartPage, above the kernel image and       *)
(* inside the identity mapping, as HEAP_START and HEAP_SIZE are.           *)
(***************************************************************************)
HeapStartPage == 7
HeapPages == 1

HEAP_START == HeapStartPage * PAGE_SIZE
HEAP_SIZE == HeapPages * PAGE_SIZE

\* PageTableIndices::from_addr
from_addr(addr) ==
    [ pml4 |-> ((addr \div (PAGE_SIZE * 512 * 512)) \div 512) % 512,
      pdpt |-> (addr \div (PAGE_SIZE * 512 * 512)) % 512,
      pd |-> (addr \div (PAGE_SIZE * 512)) % 512,
      pt |-> (addr \div PAGE_SIZE) % 512,
      offset |-> addr % PAGE_SIZE ]

HeapFlags == {"PRESENT", "WRITABLE", "NO_EXECUTE"}

\* one turn of the loop of heap::init: alloc_frame().expect(..), then
\* `let _ = map_page(virt, phys, flags)`
HeapPage(m, i, r, junk) ==
    IF r.v = <<>> THEN Err(m)
    ELSE Ok(map_page([m EXCEPT !.a = r.st, !.handed = @ \cup {r.v[1] \div PAGE_SIZE}],
                     from_addr(HEAP_START + i * PAGE_SIZE), r.v[1], HeapFlags, junk).st,
            <<>>)

\* `for i in 0..num_pages`, from turn i on; Err is the panic of expect
RECURSIVE HeapLoop(_, _, _, _)
HeapLoop(m, i, num_pages, junk) ==
    IF i >= num_pages THEN Ok(m, <<>>)
    ELSE Only({ IF ~page.ok THEN page ELSE HeapLoop(page.st, i + 1, num_pages, junk) :
                  page \in {HeapPage(m, i, alloc(m.a), junk)} })

\* heap::init
heap_init(m, junk) == HeapLoop(m, 0, (HEAP_SIZE + PAGE_SIZE - 1) \div PAGE_SIZE, junk)

NoHeap == [ state |-> "none", pages |-> {} ]

HeapInit == heap = NoHeap

\* mm::init calls heap::init, before any other call allocates or maps
HeapInitCall ==
    /\ heap.state = "none" /\ mem_calls = 0
    /\ \E r \in {heap_init(MemState, ram)} :
          /\ SetMem(r.st)
          /\ heap' = IF r.ok
                     THEN [ state |-> "ready",
                            pages |-> {from_addr(HEAP_START + i * PAGE_SIZE) : i \in 0..(HeapPages - 1)} ]
                     ELSE [ state |-> "panic", pages |-> {} ]
    /\ UNCHANGED <<ram, mem_last, retry, mem_calls, notmemheap>>

HeapNext ==
    \/ HeapInitCall
    \/ AllocFrame
    \/ \E count \in FrameCounts : AllocFrames(count)
    \/ \E addr \in FrameAddrs : FreeFrame(addr)
    \/ \E addr \in FrameAddrs, count \in FrameCounts : FreeFrames(addr, count)

\* the frames the pages of the heap translate to
HeapFrames ==
    { translate(MemState, v, ram)[1] \div PAGE_SIZE :
        v \in {w \in heap.pages : translate(MemState, w, ram) # <<>>} }

(***************************************************************************)
(* Processes and the frames of their kernel stacks: new_kernel, fork,      *)
(* exit, wait, on the machine of MaxPages frames with a kernel image of    *)
(* two pages.  A kernel stack (4 frames) is scaled to StackFrames.         *)
(***************************************************************************)
StackFrames == 1
StackKernelEnd == 3
MaxReapCalls == 6

\* FrameAllocator::init for that kernel image
StackAllocator_init ==
    Only({ [reserved EXCEPT !.first_free = FirstFreePage(reserved)] :
             reserved \in { MarkRange(MarkRange(available, 0, LowPages, FALSE),
                                      KernelStart, StackKernelEnd, FALSE) :
                 available \in {MarkRange(FrameAllocator_new, 0, AvailableEnd, TRUE)} } })

\* Process::new_kernel: `alloc_frames(4)?`
kernel_stack(a) == alloc_contiguous(a, StackFrames)

NoReap == [ op |-> "", pid |-> 0, forked |-> FALSE, free |-> 0, procs |-> {} ]

NoProcesses == [p \in {} |-> new_kernel]
NoStacks == [p \in {} |-> 0]

\* proc::init: init is created, or the kernel panics; scheduler::init: idle is
\* created, or there is no idle process
ReapBoot(init, idle) ==
    /\ pk = [ procs |-> IF init.v = <<>> THEN NoProcesses ELSE (InitPid :> new_kernel),
              queues |-> [q \in PriorityIdle..PriorityRealtime |-> <<>>],
              current |-> <<>>, cpu |-> AtEntry, stopped |-> (init.v = <<>>),
              sel |-> NoSelection, since |-> 0 ]
    /\ pk_allocator = idle.st
    /\ pk_idle = IF idle.v = <<>> THEN <<>> ELSE idle_pid
    /\ pk_stacks = [p \in (IF init.v = <<>> THEN {} ELSE {InitPid})
                            \cup (IF idle.v = <<>> THEN {} ELSE {idle_pid[1]}) |->
                       IF p = InitPid THEN init.v[1] ELSE idle.v[1]]

ReapInit ==
    /\ \E init \in {kernel_stack(StackAllocator_init)} :
          \E idle \in {IF init.v = <<>> THEN init ELSE kernel_stack(init.st)} :
             ReapBoot(init, idle)
    /\ pk_next_pid = FirstFreePid
    /\ pk_enabled = FALSE
    /\ pk_forked = [p \in {} |-> NoReap]
    /\ pk_last = NoReap
    /\ pk_calls = 0

\* the executing thread is between calls, and enters one
ReapCall ==
    /\ ~pk.stopped /\ pk.cpu.pc = "run"
    /\ pk_calls < MaxReapCalls
    /\ pk_calls' = pk_calls + 1
    /\ UNCHANGED notreap

\* scheduler::start
ReapStart ==
    /\ ~pk.stopped /\ pk.cpu.pc = "run" /\ ~pk_enabled
    /\ pk_enabled' = TRUE
    /\ UNCHANGED <<pk, pk_allocator, pk_idle, pk_stacks, pk_next_pid, pk_forked, pk_last,
                   pk_calls, notreap>>

\* new_kernel, then proc::add_process: alloc_pid, the stack, the table, the
\* run queue; None when no frames are left
AddNewKernel(process, stack, before) ==
    /\ pk_next_pid' = pk_next_pid + 1
    /\ pk_allocator' = stack.st
    /\ IF stack.v = <<>>
       THEN UNCHANGED <<pk, pk_stacks, pk_forked>>
       ELSE /\ pk' = add_process(pk, pk_next_pid, process)
            /\ pk_stacks' = (pk_next_pid :> stack.v[1]) @@ pk_stacks
            /\ pk_forked' = IF before = <<>> THEN pk_forked
                            ELSE (pk_next_pid :> before[1]) @@ pk_forked
    /\ pk_last' = NoReap
    /\ UNCHANGED <<pk_idle, pk_enabled>>

\* Process::new_kernel, proc::add_process
ReapSpawn ==
    /\ ReapCall /\ pk_next_pid <= MaxPid
    /\ AddNewKernel(new_kernel, kernel_stack(pk_allocator), <<>>)

\* proc::fork by the current process
ReapFork ==
    /\ ReapCall /\ pk_next_pid <= MaxPid
    /\ HasContext(pk, pk.current)
    /\ AddNewKernel(Process_fork(pk.procs[pk.current[1]]), kernel_stack(pk_allocator),
                    <<[NoReap EXCEPT !.free = pk_allocator.free_pages, !.procs = DOMAIN pk.procs]>>)

\* schedule()
ReapSchedule(k, outcome) == IF pk_enabled THEN schedule(k, pk_idle, outcome) ELSE k

\* scheduler::yield_now
ReapYield(outcome) ==
    /\ ReapCall /\ pk_enabled
    /\ pk' = ReapSchedule(pk, outcome)
    /\ pk_last' = NoReap
    /\ UNCHANGED <<pk_allocator, pk_idle, pk_stacks, pk_next_pid, pk_enabled, pk_forked>>

\* proc::exit
ReapExit(status, outcome) ==
    /\ ReapCall
    /\ pk' = ReapSchedule(MarkZombie(pk, status), outcome)
    /\ pk_last' = NoReap
    /\ UNCHANGED <<pk_allocator, pk_idle, pk_stacks, pk_next_pid, pk_enabled, pk_forked>>

\* proc::wait is entered
ReapWaitBegin(pid) ==
    /\ ReapCall
    /\ pk' = [pk EXCEPT !.cpu = Running("wait", <<pid>>, 0)]
    /\ pk_last' = NoReap
    /\ UNCHANGED <<pk_allocator, pk_idle, pk_stacks, pk_next_pid, pk_enabled, pk_forked>>

\* wait reaps a zombie: `processes.remove(&pid)` drops the Process
Reaped(pid) ==
    /\ pk' = [pk EXCEPT !.procs = [p \in DOMAIN pk.procs \ {pid} |-> pk.procs[p]], !.cpu = AtEntry]
    /\ pk_stacks' = [p \in DOMAIN pk_stacks \ {pid} |-> pk_stacks[p]]
    /\ pk_last' = IF pid \in DOMAIN pk_forked
                  THEN [pk_forked[pid] EXCEPT !.op = "reaped", !.pid = pid, !.forked = TRUE]
                  ELSE [NoReap EXCEPT !.op = "reaped", !.pid = pid]
    /\ pk_forked' = [p \in DOMAIN pk_forked \ {pid} |-> pk_forked[p]]

\* one turn of the loop of proc::wait
ReapWaitTurn(outcome) ==
    /\ ~pk.stopped /\ pk.cpu.pc = "wait"
    /\ \E pid \in {pk.cpu.pid[1]} :
          IF pid \notin DOMAIN pk.procs
          THEN pk' = [pk EXCEPT !.cpu = AtEntry] /\ UNCHANGED <<pk_stacks, pk_last, pk_forked>>
          ELSE IF pk.procs[pid].state = "Zombie"
          THEN Reaped(pid)
          ELSE pk' = ReapSchedule(pk, outcome) /\ UNCHANGED <<pk_stacks, pk_last, pk_forked>>
    /\ UNCHANGED <<pk_allocator, pk_idle, pk_next_pid, pk_enabled, pk_calls, notreap>>

ReapNext ==
    \/ ReapStart
    \/ ReapSpawn
    \/ ReapFork
    \/ \E outcome \in SwitchOutcomes : ReapYield(outcome)
    \/ \E status \in ExitStatuses, outcome \in SwitchOutcomes : ReapExit(status, outcome)
    \/ \E pid \in Pids : ReapWaitBegin(pid)
    \/ \E outcome \in SwitchOutcomes : ReapWaitTurn(outcome)

(***************************************************************************)
(* CottonFS: create and mkdir in the root directory and in a directory of  *)
(* it, on a device that files of nine blocks fill                          *)
(***************************************************************************)
MaxCrCalls == 4

\* the directory a call is made on: the root, or /b
CrPaths == { <<>>, <<"b">> }
CrNames == {"b", "x"}
CrFiles == {"a", "c"}
CrContents == { BFill(2, 9 * BLOCK_SIZE) }

NoCreate ==
    [ op |-> "", ok |-> FALSE, before |-> <<>>, after |-> <<>>, free_before |-> 0, free_after |-> 0 ]

CrInit ==
    /\ cr = CottonFS_new(BlankDevice, 0).st
    /\ cr_last = NoCreate
    /\ cr_calls = 0

CrCall ==
    /\ cr_calls < MaxCrCalls
    /\ cr_calls' = cr_calls + 1
    /\ UNCHANGED notcr

\* fs::lookup of the directory
CrDir(st, path) == IF path = <<>> THEN Ok(st, ROOT_INODE) ELSE vfs_lookup(st, path[1], 0)

\* what Inode::lookup(name) on the directory gives: Err, Ok(None), Ok(Some(ino))
Looked(st, dir, name) ==
    Only({ [ok |-> l.ok, v |-> l.v] : l \in {inode_lookup(st, dir, name, 0)} })

\* Inode::create or Inode::mkdir on the directory at path
CrCreate(path, name, kind) ==
    /\ CrCall
    /\ \E d \in {CrDir(cr, path)} :
          /\ d.ok
          /\ \E r \in {CreateEntry(d.st, d.v, name, kind, 0)} :
                /\ cr' = r.st
                /\ cr_last' = [ op |-> "create", ok |-> r.ok,
                                before |-> Looked(d.st, d.v, name),
                                after |-> Looked(r.st, d.v, name),
                                free_before |-> get_stats(d.st).free_inodes,
                                free_after |-> get_stats(r.st).free_inodes ]

\* fs::write_file("/name", data)
CrWriteFile(name, data) ==
    /\ CrCall
    /\ cr' = write_file(cr, name, data, 0).st
    /\ cr_last' = NoCreate

CrNext ==
    \/ \E path \in CrPaths, name \in CrNames, kind \in CfKinds : CrCreate(path, name, kind)
    \/ \E name \in CrFiles, data \in CrContents : CrWriteFile(name, data)

(***************************************************************************)
(* Boot: kernel_main runs arch::init (which ends by enabling interrupts),  *)
(* then mm::init and the later initialisations, while the keyboard may     *)
(* raise IRQ1 whenever the processor accepts it                            *)
(***************************************************************************)
MaxBootIrqs == 3

\* arch::init, then the rest of kernel_main, in the order of the calls
BootSteps ==
    << "entry", "idt_init", "paging_init", "pit_init", "serial_init", "enable_interrupts",
       "banner", "parse_memory_map", "physical_init", "virtual_mem_init", "heap_init",
       "proc_init", "drivers_init", "fs_init", "syscall_init", "scheduler_start" >>

\* 0xE0, A pressed, left shift pressed, left shift released
ScanCodes == {224, 30, 42, 170}

scancode_to_keycode(code) ==
    IF code = 30 THEN "A" ELSE IF code = 42 THEN "LeftShift" ELSE "Unknown"

\* none of the codes drawn is in the extended table
extended_scancode_to_keycode(code) == "Unknown"

\* the event and the modifiers after it
process_scancode(scancode, extended, shift) ==
    LET pressed == scancode < 128
        code == scancode % 128
        keycode == IF extended THEN extended_scancode_to_keycode(code)
                   ELSE scancode_to_keycode(code)
        mods == IF keycode = "LeftShift" THEN pressed ELSE shift
    IN  [ event |-> [ scancode |-> scancode, keycode |-> keycode, shift |-> mods,
                      pressed |-> pressed ],
          shift |-> mods ]

NoKey == [ op |-> "", scancode |-> 0, heap |-> "empty", did |-> "" ]

\* the machine before the boot stub hands over to kernel_main
BootInit ==
    /\ boot_pc = 1
    /\ intr = [ idt |-> FALSE, pic_unmasked |-> FALSE, iflag |-> FALSE, ps2_irq1 |-> FALSE ]
    /\ kernel_heap = "empty"
    /\ keyboard = [ extended |-> FALSE, shift |-> FALSE, len |-> 0, back |-> <<>> ]
    /\ boot_last = NoKey
    /\ boot_irqs = 0

\* what the step does to the interrupt machinery
BootIntr(step) ==
    IF step = "idt_init" THEN [intr EXCEPT !.idt = TRUE, !.pic_unmasked = TRUE]
    ELSE IF step = "enable_interrupts" THEN [intr EXCEPT !.iflag = TRUE]
    ELSE IF step = "drivers_init" THEN [intr EXCEPT !.ps2_irq1 = TRUE]
    ELSE intr

\* the processor enters kernel_main with interrupts disabled and no IDT of
\* the kernel; the firmware has left IRQ1 of the PS/2 controller on or off
BootEntry(irq1) ==
    /\ boot_pc = 1
    /\ boot_pc' = 2
    /\ intr' = [intr EXCEPT !.ps2_irq1 = irq1]
    /\ UNCHANGED <<kernel_heap, keyboard, boot_last, boot_irqs, notboot>>

\* kernel_main runs its next call to the end
BootStep ==
    /\ boot_pc \in 2..Len(BootSteps)
    /\ boot_pc' = boot_pc + 1
    /\ intr' = BootIntr(BootSteps[boot_pc])
    /\ kernel_heap' = IF BootSteps[boot_pc] = "heap_init" THEN "ready" ELSE kernel_heap
    /\ UNCHANGED <<keyboard, boot_last, boot_irqs, notboot>>

\* IRQ1 is delivered: irq_common_handler calls keyboard::handle_interrupt.
\* The first push_back of an event allocates; on the empty heap the
\* allocation fails and alloc_error_handler panics
KeyboardIrq(scancode) ==
    /\ boot_pc # 0 /\ boot_irqs < MaxBootIrqs
    /\ intr.idt /\ intr.pic_unmasked /\ intr.iflag /\ intr.ps2_irq1
    /\ boot_irqs' = boot_irqs + 1
    /\ IF scancode = 224
       THEN /\ keyboard' = [keyboard EXCEPT !.extended = TRUE]
            /\ boot_last' = [ op |-> "irq1", scancode |-> scancode, heap |-> kernel_heap,
                              did |-> "prefix" ]
            /\ UNCHANGED <<boot_pc, intr>>
       ELSE \E r \in { process_scancode(scancode, keyboard.extended, keyboard.shift) } :
                IF kernel_heap = "empty"
                THEN /\ keyboard' = [keyboard EXCEPT !.extended = FALSE, !.shift = r.shift]
                     /\ boot_last' = [ op |-> "irq1", scancode |-> scancode,
                                       heap |-> kernel_heap, did |-> "panic" ]
                     /\ boot_pc' = 0
                     /\ intr' = [intr EXCEPT !.iflag = FALSE]
                ELSE /\ keyboard' =
                            IF keyboard.len < 256
                            THEN [ extended |-> FALSE, shift |-> r.shift,
                                   len |-> keyboard.len + 1, back |-> <<r.event>> ]
                            ELSE [keyboard EXCEPT !.extended = FALSE, !.shift = r.shift]
                     /\ boot_last' = [ op |-> "irq1", scancode |-> scancode,
                                       heap |-> kernel_heap, did |-> "push" ]
                     /\ UNCHANGED <<boot_pc, intr>>
    /\ UNCHANGED <<kernel_heap, notboot>>

BootNext ==
    \/ \E irq1 \in BOOLEAN : BootEntry(irq1)
    \/ BootStep
    \/ \E scancode \in ScanCodes : KeyboardIrq(scancode)

(***************************************************************************)
(* sync::BinarySemaphore under concurrent tasks: every atomic operation    *)
(* and every critical section of the waiters' lock is one step             *)
(***************************************************************************)
MaxSemCalls == 5
MaxSemWaiters == 2

SemTasks == {1, 2}

SemIdle == [ pc |-> "idle", count |-> 0, got |-> FALSE ]

BinarySemaphore_new(available) ==
    [ count |-> IF available THEN 1 ELSE 0, waiters |-> <<>> ]

SemInit ==
    /\ sem = BinarySemaphore_new(TRUE)
    /\ sem_task = [ t \in SemTasks |-> SemIdle ]
    /\ sem_calls = 0

\* a task calls acquire, try_acquire or release
SemCall(t, call) ==
    /\ sem_task[t].pc = "idle" /\ sem_calls < MaxSemCalls
    /\ sem_calls' = sem_calls + 1
    /\ sem_task' = [sem_task EXCEPT ![t] = [ pc |-> call, count |-> 0, got |-> FALSE ]]
    /\ UNCHANGED <<sem, notsem>>

\* Semaphore::wait and try_wait: count.load(Acquire)
SemLoad(t) ==
    /\ sem_task[t].pc \in {"acquire", "try_acquire"}
    /\ sem_task' = [sem_task EXCEPT ![t].count = sem.count,
                                    ![t].pc = IF sem.count > 0 THEN @ \o "_cas"
                                              ELSE IF @ = "acquire" THEN "acquire_park"
                                              ELSE "idle"]
    /\ UNCHANGED <<sem, sem_calls, notsem>>

\* compare_exchange(count, count - 1): the call returns on success and
\* loads again on failure
SemCas(t) ==
    /\ sem_task[t].pc \in {"acquire_cas", "try_acquire_cas"}
    /\ IF sem.count = sem_task[t].count
       THEN /\ sem' = [sem EXCEPT !.count = sem_task[t].count - 1]
            /\ sem_task' = [sem_task EXCEPT ![t].pc = "idle", ![t].got = TRUE]
       ELSE /\ sem_task' = [sem_task EXCEPT ![t].pc =
                                IF @ = "acquire_cas" THEN "acquire" ELSE "try_acquire"]
            /\ UNCHANGED sem
    /\ UNCHANGED <<sem_calls, notsem>>

\* wait with no count left: the task queues itself, yields and loops
SemPark(t) ==
    /\ sem_task[t].pc = "acquire_park"
    /\ Len(sem.waiters) < MaxSemWaiters
    /\ sem' = [sem EXCEPT !.waiters = Append(@, t)]
    /\ sem_task' = [sem_task EXCEPT ![t].pc = "acquire"]
    /\ UNCHANGED <<sem_calls, notsem>>

\* BinarySemaphore::release: count.load(Acquire), then signal if count < 1
SemReleaseLoad(t) ==
    /\ sem_task[t].pc = "release"
    /\ sem_task' = [sem_task EXCEPT ![t].count = sem.count,
                                    ![t].pc = IF sem.count < 1 THEN "signal" ELSE "idle"]
    /\ UNCHANGED <<sem, sem_calls, notsem>>

\* Semaphore::signal: count.fetch_add(1)
SemFetchAdd(t) ==
    /\ sem_task[t].pc = "signal"
    /\ sem' = [sem EXCEPT !.count = @ + 1]
    /\ sem_task' = [sem_task EXCEPT ![t].pc = "signal_wake"]
    /\ UNCHANGED <<sem_calls, notsem>>

\* Semaphore::signal: waiters.pop_front(), which wakes nobody
SemWake(t) ==
    /\ sem_task[t].pc = "signal_wake"
    /\ sem' = [sem EXCEPT !.waiters = IF @ = <<>> THEN @ ELSE Tail(@)]
    /\ sem_task' = [sem_task EXCEPT ![t].pc = "idle"]
    /\ UNCHANGED <<sem_calls, notsem>>

SemNext ==
    \E t \in SemTasks :
        \/ \E call \in {"acquire", "try_acquire", "release"} : SemCall(t, call)
        \/ SemLoad(t)
        \/ SemCas(t)
        \/ SemPark(t)
        \/ SemReleaseLoad(t)
        \/ SemFetchAdd(t)
        \/ SemWake(t)

(***************************************************************************)
(* CottonFS::alloc_block and free_block on devices of several sizes         *)
(***************************************************************************)
MaxAbCalls == 5
SECTORS_PER_BLOCK == 8

\* devices that hold the metadata blocks and 0, 1, 2 and 16 data blocks,
\* and one whose last data block is cut short
AbSectors == {1024, 1032, 1036, 1040, 1152}

\* CottonFS::new on a blank device of that many sectors
AbNew(sectors) ==
    load_inode_internal(
        format([BlankDevice EXCEPT !.sb = Superblock_new(sectors),
                                   !.ibm = set_bit({}, InodeBitmapBytes, ROOT_INODE)]),
        ROOT_INODE, 0).st

NoAlloc == [ op |-> "", ok |-> FALSE, block |-> 0 ]

\* no device attached yet
AbInit ==
    /\ ab_sectors = 0
    /\ ab = BlankDevice
    /\ ab_last = NoAlloc
    /\ ab_calls = 0

\* fs::init on a device of that size
AbMount(sectors) ==
    /\ ab_sectors = 0
    /\ ab_sectors' = sectors
    /\ ab' = AbNew(sectors)
    /\ UNCHANGED <<ab_last, ab_calls, notab>>

\* the blocks the data bitmap marks as used
AbHeld == { DATA_BLOCKS_START + i : i \in ab.dbm }

AbAllocBlock ==
    /\ ab_sectors # 0 /\ ab_calls < MaxAbCalls
    /\ \E r \in { alloc_block(ab) } :
           /\ ab' = r.st
           /\ ab_last' = [ op |-> "alloc_block", ok |-> r.ok, block |-> IF r.ok THEN r.v ELSE 0 ]
    /\ ab_calls' = ab_calls + 1
    /\ UNCHANGED <<ab_sectors, notab>>

AbFreeBlock(block) ==
    /\ ab_sectors # 0 /\ ab_calls < MaxAbCalls
    /\ \E r \in { free_block(ab, block) } :
           /\ ab' = r.st
           /\ ab_last' = [ op |-> "free_block", ok |-> r.ok, block |-> block ]
    /\ ab_calls' = ab_calls + 1
    /\ UNCHANGED <<ab_sectors, notab>>

AbNext ==
    \/ \E sectors \in AbSectors : AbMount(sectors)
    \/ AbAllocBlock
    \/ \E block \in AbHeld : AbFreeBlock(block)

\* the sectors of the block are on the device
OnDevice(block, sectors) ==
    \A s \in 0..(SECTORS_PER_BLOCK - 1) : block * SECTORS_PER_BLOCK + s < sectors

(***************************************************************************)
(* CottonFS::alloc_inode and free_inode on a filesystem whose inode bitmap *)
(* is nearly full                                                          *)
(***************************************************************************)
MaxAiCalls == 5

\* numbers of inodes allocated since the format
AiAllocated == {MAX_INODES - 5, MAX_INODES - 4, MAX_INODES - 3}

\* what n successful calls of alloc_inode in a row leave of a fresh
\* filesystem: the scan is first fit from bit 2, so bits 1 .. n + 1 are
\* set, and each call took one from free_inodes
AiAfter(s, n) ==
    sync_superblock(sync_inode_bitmap(
        [s EXCEPT !.ibm = 1..(n + 1), !.sb.free_inodes = s.sb.free_inodes - n]))

NoIno == [ op |-> "", ok |-> FALSE, ino |-> 0, free_before |-> 0 ]

AiInit ==
    /\ ai = CottonFS_new(BlankDevice, 0).st
    /\ ai_last = NoIno
    /\ ai_calls = 0

\* the first n calls of alloc_inode, all of which succeed
AiFill(n) ==
    /\ ai_last.op = ""
    /\ ai' = AiAfter(ai, n)
    /\ ai_last' = [ op |-> "filled", ok |-> TRUE, ino |-> n + 1,
                    free_before |-> ai.sb.free_inodes ]
    /\ UNCHANGED <<ai_calls, notai>>

\* the inodes of the last files, which unlink gives back
AiFreed == { ino \in {MAX_INODES - 3, MAX_INODES - 2, MAX_INODES - 1} :
                 get_bit(ai.ibm, InodeBitmapBytes, ino) }

AiAllocInode ==
    /\ ai_last.op # "" /\ ai_calls < MaxAiCalls
    /\ \E r \in { alloc_inode(ai) } :
           /\ ai' = r.st
           /\ ai_last' = [ op |-> "alloc_inode", ok |-> r.ok, ino |-> IF r.ok THEN r.v ELSE 0,
                           free_before |-> ai.sb.free_inodes ]
    /\ ai_calls' = ai_calls + 1
    /\ UNCHANGED notai

AiFreeInode(ino) ==
    /\ ai_last.op # "" /\ ai_calls < MaxAiCalls
    /\ \E r \in { free_inode(ai, ino) } :
           /\ ai' = r.st
           /\ ai_last' = [ op |-> "free_inode", ok |-> r.ok, ino |-> ino,
                           free_before |-> ai.sb.free_inodes ]
    /\ ai_calls' = ai_calls + 1
    /\ UNCHANGED notai

AiNext ==
    \/ \E n \in AiAllocated : AiFill(n)
    \/ AiAllocInode
    \/ \E ino \in AiFreed : AiFreeInode(ino)

RestInit == MutexInit /\ IrqInit /\ LocksInit /\ MemInit /\ SysInit /\ RwInit /\ RmInit /\ CvInit /\ BarrierInit /\ AtaInit /\ MountsInit /\ CfInit /\ HeapInit /\ ReapInit /\ CrInit /\ BootInit /\ SemInit /\ AbInit /\ AiInit

(***************************************************************************)
(* Specifications: the filesystem under its calls, the scheduler under its *)
(* calls and the timer                                                     *)
(***************************************************************************)
Init == FsInit /\ SchedInit /\ RestInit

Spec == Init /\ [][FsNext]_vars

SpecSched == Init /\ [][SchedNext]_vars

\* the processor keeps executing the loop of proc::wait it is in
SpecSchedFair ==
    SpecSched /\ WF_vars(\E outcome \in SwitchOutcomes : WaitTurn(outcome))

(***************************************************************************)
(* Properties of the filesystem                                            *)
(***************************************************************************)
\* what readfile("/name") returns in the current state, for each outcome of
\* an out-of-buffer read
ReadsBack(name, data) ==
    \A g \in UninitWords :
        \E r \in {read_file(FsState, name, g)} : r.ok /\ r.v = data

\* C1: a content of at most 48 KiB that writefile stored successfully is
\* what readfile returns after a sync and a re-mount.
C1_ContentSurvivesRemount ==
    ( /\ persisted.op = "write_file"
      /\ persisted.stage = 3
      /\ BLen(persisted.data) <= DIRECT_BLOCKS * BLOCK_SIZE )
    => ReadsBack(persisted.name, persisted.data)

\* C2: readfile immediately after a successful writefile on the same mount
\* returns the content written, whatever the file held before.
C2_ReadAfterWrite ==
    (last.op = "write_file" /\ last.ok) => ReadsBack(last.name, persisted.data)

\* a successful writefile has just replaced a longer cached content
C2_Overwritten ==
    /\ last.op = "write_file" /\ last.ok
    /\ last.prev # <<>>
    /\ BLen(last.prev[1]) > BLen(persisted.data)
    /\ ReadsBack(last.name, persisted.data)

InodeNumbers == 0..(MaxCalls + 2)

\* C3: bit N of the inode bitmap is set exactly when the on-disk inode N
\* has a file type other than 0.
C3_BitmapMatchesInodeTable ==
    \A n \in InodeNumbers :
        get_bit(inode_bitmap, InodeBitmapBytes, n) <=> (SlotAt(FsState, n).file_type # 0)

BlockMarked(block) ==
    /\ block >= DATA_BLOCKS_START
    /\ get_bit(data_bitmap, DataBitmapBytes, block - DATA_BLOCKS_START)

\* C4: every non-zero direct pointer of an allocated inode is marked
\* allocated in the data bitmap.
C4_PointersAreAllocated ==
    \A ino \in DOMAIN inode_cache :
        get_bit(inode_bitmap, InodeBitmapBytes, ino) =>
            \A i \in 1..DIRECT_BLOCKS :
                inode_cache[ino].disk_inode.direct[i] # 0 =>
                    BlockMarked(inode_cache[ino].disk_inode.direct[i])

\* lookup(name) in the root returns None and readdir does not list name
Absent(name) ==
    /\ \A g \in UninitWords :
          \E r \in {inode_lookup(FsState, ROOT_INODE, name, g)} : r.ok /\ r.v = <<>>
    /\ \E r \in {inode_readdir(FsState, ROOT_INODE)} :
          r.ok /\ \A i \in 1..Len(r.v) : r.v[i] # name

\* C5: a name that unlink removed successfully is absent after a sync and a
\* re-mount.
C5_UnlinkPersists ==
    (persisted.op = "unlink" /\ persisted.stage = 3) => Absent(persisted.name)

\* C6: statfs free counts plus the bitmaps' set bits equal the totals.
C6_StatfsBalances ==
    /\ get_stats(FsState).free_inodes + Cardinality(inode_bitmap)
           = get_stats(FsState).total_inodes
    /\ get_stats(FsState).free_blocks + Cardinality(data_bitmap)
           = get_stats(FsState).total_blocks

NonZeroPointers(di) == Cardinality({i \in 1..DIRECT_BLOCKS : di.direct[i] # 0})

\* C7: after a successful write or truncate the recorded size of the inode
\* is at most 4096 times the number of its non-zero direct pointers.
C7_SizeWithinBlocks ==
    (last.op \in {"write_file", "truncate"} /\ last.ok /\ last.ino \in DOMAIN inode_cache) =>
        inode_cache[last.ino].disk_inode.size
            <= BLOCK_SIZE * NonZeroPointers(inode_cache[last.ino].disk_inode)


(***************************************************************************)
(* Properties of the scheduler                                             *)
(***************************************************************************)
\* C8: schedule() never selects a process whose state is Zombie, Blocked or
\* Sleeping.
C8_SelectsOnlyRunnable == sel.state \notin {"Zombie", "Blocked", "Sleeping"}

\* C9: while some process is Ready, schedule() picks neither the idle
\* process nor a process of lower priority than a Ready one.
C9_HighestReadyFirst ==
    \A ready \in sel.ready : sel.state # "none" /\ sel.priority >= ready

\* C10: while the scheduler is enabled, schedule() is invoked on a process
\* that stays current no later than the 10th tick after it was selected,
\* each tick before that lowers its time slice by one, and every process in
\* a run queue starts its turn with a time slice of 10.
C10_SliceExpires ==
    /\ enabled => since < TIME_SLICE
    /\ (enabled /\ HasContext(SchedState, current)) =>
           processes[current[1]].time_slice = TIME_SLICE - since
    /\ \A q \in DOMAIN run_queues : \A i \in 1..Len(run_queues[q]) :
           run_queues[q][i] \in DOMAIN processes =>
               processes[run_queues[q][i]].time_slice = TIME_SLICE

\* the tenth tick of a process's turn put it back in its run queue and
\* selected it again with a fresh time slice
C10_TenthTick ==
    /\ enabled /\ HasContext(SchedState, current)
    /\ entered = 1
    /\ since = 0
    /\ sel.state = "Ready"
    /\ processes[current[1]].time_slice = TIME_SLICE

SpecIrq == Init /\ [][IrqNext]_vars

SpecFsLocks == Init /\ [][LocksNext]_vars

SpecMem == Init /\ [][MemNext]_vars

SpecInodes == Init /\ [][AiNext]_vars

SpecAlloc == Init /\ [][AbNext]_vars

SpecSem == Init /\ [][SemNext]_vars

SpecBoot == Init /\ [][BootNext]_vars

SpecCreate == Init /\ [][CrNext]_vars

SpecReap == Init /\ [][ReapNext]_vars

SpecHeap == Init /\ [][HeapNext]_vars

SpecFsTasks == Init /\ [][CfNext]_vars

SpecMounts == Init /\ [][MountsNext]_vars

SpecAta == Init /\ [][AtaNext]_vars

SpecBarrier == Init /\ [][BarNext]_vars

SpecCv == Init /\ [][CvNext]_vars

SpecRm == Init /\ [][RmNext]_vars

SpecRw == Init /\ [][RwNext]_vars

SpecSys == Init /\ [][SysNext]_vars

\* the tasks run when the scheduler makes them current: the processor keeps
\* executing the current task
SpecMutex == Init /\ [][MutexNext]_vars /\ WF_vars(TaskStep)

\* wait(pid) is in its loop for a process of the table other than the
\* current one, the scheduler running
InWait(pid) ==
    /\ ~stopped /\ enabled
    /\ cpu.pc = "wait" /\ cpu.pid = <<pid>>
    /\ pid \in DOMAIN processes
    /\ current # <<>> /\ current # <<pid>>

C12_NeverEarlier == cpu.pc = "run" => tick_count >= cpu.wake

\* C13: a task that found the mutex taken in Mutex::lock() eventually holds
\* it, every holder unlocking at its next own step, whatever the priorities
\* of holder and waiter (or the machine has stopped in a context switch).
C13_WaiterAcquires ==
    \A p \in Pids : (task[p] = "yield") ~> (stopped \/ task[p] = "in")

\* C14: no interrupt handler waits: whenever a handler is at a lock() the
\* lock is free, whatever the interrupted thread holds.
C14_HandlersNeverWait ==
    (in_irq /\ irq_path # <<>> /\ Head(irq_path).op = "lock") =>
        spin[Head(irq_path).on] = "free"

\* C15: concurrent CottonFS calls never deadlock on the filesystem's locks:
\* while some thread is inside a call, some thread inside a call can take
\* its next step.
C15_NoDeadlock ==
    (\E t \in Threads : fs_path[t] # <<>>) =>
        \E t \in Threads : fs_path[t] # <<>> /\ ~Blocked(t)

\* C16: right after map_page(v, phys, flags) returned Ok, translate(v) is
\* Some(phys + v mod 4096), for v inside the identity-mapped range too.
C16_TranslateAfterMap ==
    (mem_last.op = "map_page" /\ mem_last.ok) =>
        translate(MemState, mem_last.v, ram) = <<mem_last.phys + mem_last.v.offset>>

\* C17: right after unmap_page(v) was called for an address that translate
\* resolved, translate(v) is None.
C17_NoneAfterUnmap ==
    (mem_last.op = "unmap_page" /\ mem_last.resolved) =>
        translate(MemState, mem_last.v, ram) = <<>>

\* C18: a map_page that failed for lack of a page-table frame has left the
\* page tables as they were before the call.
C18_FailedMapChangesNothing ==
    (mem_last.op = "map_page" /\ ~mem_last.ok) => memory = mem_last.before

\* C19: after a map_page that failed with the allocator exhausted, and a
\* free_frame that freed one frame, the same map_page succeeds.
C19_OneFrameSuffices == retry.stage = 3 => retry.ok

\* C20: a page's bit is set exactly while the page is handed out or
\* reserved, and free_pages is the number of clear bits below total_pages.
C20_BitmapMatchesFrames ==
    /\ \A page \in 0..(MaxPages - 1) :
          page \in allocator.bitmap <=> page \in handed \cup Reserved
    /\ allocator.free_pages
           = Cardinality({page \in 0..(allocator.total_pages - 1) : page \notin allocator.bitmap})

\* C21: the dispatcher calls syscall::handle with the number from the
\* caller's RAX and arguments 1 to 5 from RDI, RSI, RDX, R10 and R8.
C21_ArgumentsByAbi ==
    sys_last.op = "int80" =>
        sys_last.call = [ num |-> sys_last.at["rax"], arg1 |-> sys_last.at["rdi"],
                          arg2 |-> sys_last.at["rsi"], arg3 |-> sys_last.at["rdx"],
                          arg4 |-> sys_last.at["r10"], arg5 |-> sys_last.at["r8"] ]

\* C22: when the system call has returned, the caller's RAX holds the value
\* the selected handler produced.
C22_ResultInRax ==
    (sys_last.op = "int80" /\ sys_pc = "user") => regs["rax"] = sys_last.result

\* C23: no writer holds the RwLock while a reader or another writer holds it.
C23_WriterAlone ==
    \A t \in RwTasks :
        rw_task[t] = "writing" => \A u \in RwTasks \ {t} : rw_task[u] \notin {"reading", "writing"}

\* a writer holds the lock while a reader that incremented the count has
\* seen it and is about to roll back
C23_Witness ==
    \E t \in RwTasks, u \in RwTasks : rw_task[t] = "writing" /\ rw_task[u] = "read_undo"

\* C24: all live guards of the RecursiveMutex belong to a single task, the
\* task that runs with no current PID included.
C24_OneOwner == Cardinality({t \in RmTasks : rm_task[t].guards > 0}) <= 1

\* C25: a task that has come to the end of CondVar::wait was notified and
\* holds the mutex again.
C25_GuardAfterWait ==
    \A t \in CvTasks :
        cv_task[t] = "todo" =>
            t \in cv_notified /\ cv_mutex.locked /\ cv_mutex.owner = t

\* C26: a wait() that has returned had the count arrivals of its generation
\* behind it, and it returned true exactly when it was the last of them.
C26_BarrierHolds ==
    \A t \in BarrierTasks :
        bar_task[t].pc = "returned" =>
            /\ arrivals >= GenerationEnd(bar_task[t].arrival)
            /\ bar_task[t].leader <=> bar_task[t].arrival = GenerationEnd(bar_task[t].arrival)

\* C27: a block-device read or write of count 0 returns Ok and has issued
\* no command to the drive.
C27_ZeroCountNoOp ==
    \A t \in AtaTasks :
        (ata_task[t].pc = "done" /\ ata_task[t].count = 0) =>
            ata_task[t].ok /\ ata_task[t].commands = 0

\* C30: at most one task is inside an ATA command sequence, from the
\* programming of the registers to the last data word and the cache flush.
C30_OneCommandSequence ==
    Cardinality({t \in AtaTasks : ata_task[t].pc \in {"command", "sectors"}}) <= 1

\* C28: lookup goes through the mount whose mount point is the longest
\* prefix of the path, whatever the order of the mounts.
C28_LongestPrefix ==
    (mount_last.op = "lookup" /\ PrefixMounts(mount_last.path) # {}) =>
        /\ mount_last.via # <<>>
        /\ \A i \in PrefixMounts(mount_last.path) :
              Len(mounts[i].path) <= Len(mount_last.via[1].path)

\* the places a pid holds in the run queues
QueuePlaces(pid) ==
    { <<q, i>> \in (PriorityIdle..PriorityRealtime) \X (1..(MaxPid + MaxEntered)) :
         i <= Len(run_queues[q]) /\ run_queues[q][i] = pid }

\* C29: every process of the table that is Ready or Created and is not the
\* current process is in exactly one place of the run queues.
C29_RunnableQueued ==
    \A pid \in DOMAIN processes :
        (processes[pid].state \in {"Ready", "Created"} /\ current # <<pid>>) =>
            Cardinality(QueuePlaces(pid)) = 1

\* C31: the root directory never holds two entries with the same name,
\* however the create and mkdir calls of the tasks interleave.
C31_NoDuplicateNames ==
    \A i, j \in 1..Len(CfEntries) : CfEntries[i].name = CfEntries[j].name => i = j

\* C32: when no task is inside a call, the inode bitmap, the data bitmap and
\* the superblock on the device equal the copies in memory.
C32_DiskMatchesMemory ==
    (\A t \in CfTasks : cf_task[t].pc = "idle") =>
        /\ cfs.dibm = cfs.ibm
        /\ cfs.ddbm = cfs.dbm
        /\ cfs.dsb = <<cfs.sb>>

\* C33: when no task is inside write_disk_inode, the inode table on the
\* device holds, for every inode written, the image written last.
C33_BothInodesPersisted ==
    (\A t \in CfTasks : cf_task[t].pc # "inode_write") =>
        \A ino \in DOMAIN cf_written : SlotAt(cfs, ino) = cf_written[ino]

\* C34: every page of the heap translates to a frame that the frame
\* allocator has marked allocated.
C34_HeapFramesAllocated ==
    \A v \in heap.pages :
        /\ translate(MemState, v, ram) # <<>>
        /\ is_allocated(allocator, translate(MemState, v, ram)[1] \div PAGE_SIZE)

\* C35: when wait has reaped a forked child and the processes are those that
\* existed before the fork, the free-frame count is what it was before the fork.
C35_FramesReturned ==
    (pk_last.op = "reaped" /\ pk_last.forked /\ DOMAIN pk.procs = pk_last.procs) =>
        pk_allocator.free_pages = pk_last.free

\* C36: when create or mkdir returns an error, lookup of the name in the
\* directory gives what it gave before the call and free_inodes is unchanged.
C36_FailedCreateNoEffect ==
    (cr_last.op = "create" /\ ~cr_last.ok) =>
        /\ cr_last.after = cr_last.before
        /\ cr_last.free_after = cr_last.free_before

\* C37: no keyboard interrupt handler runs before heap initialisation has
\* completed: every invocation of the handler finds the kernel heap ready.
C37_NoKeyboardBeforeHeap ==
    boot_last.op = "irq1" => boot_last.heap = "ready"

\* C38: the count of a BinarySemaphore never exceeds 1, whatever the
\* interleaving of acquire, try_acquire and release.
C38_CountAtMostOne ==
    sem.count <= 1

\* C39: every block number alloc_block returns lies within the device: all
\* eight sectors of the block have an LBA below the device's sector count.
C39_BlockOnDevice ==
    (ab_last.op = "alloc_block" /\ ab_last.ok) => OnDevice(ab_last.block, ab_sectors)

\* C40: alloc_inode fails only when free_inodes is 0: in every state with
\* free_inodes > 0 the call succeeds.
C40_FailsOnlyWhenNoneFree ==
    (ai_last.op = "alloc_inode" /\ ~ai_last.ok) => ai_last.free_before = 0
====
